---------------------------- MODULE Spec2Model ----------------------------
(***************************************************************************)
(* Model of the inactive-user data-retention processor                     *)
(* (enterprise/server/maintenance_task_processor/                          *)
(*  inactive_user_data_retention_processor.py) over the relational store   *)
(* it shares with the conversation subsystem.                              *)
(*                                                                         *)
(* Time is counted in whole days.  A run of the processor takes no         *)
(* measurable part of a day, so the clock advances only between runs;      *)
(* conversation activity of users may interleave with the phases of a run. *)
(*                                                                         *)
(* The store is modelled as the committed tables (member, meta, saas,      *)
(* audit) plus the unit of work of the processor's SQLAlchemy session      *)
(* (sess): the session reads the committed tables overlaid with its own    *)
(* uncommitted changes, commit() persists them, rollback() and close()     *)
(* drop them.                                                              *)
(***************************************************************************)
EXTENDS Integers, Sequences, FiniteSets, Bags, TLC

(***************************************************************************)
(* Bounds of the model.                                                    *)
(***************************************************************************)
MaxTicks == 2      \* clock advances in one behaviour
MaxActivity == 1   \* conversations started in one behaviour
MaxFailures == 1   \* injected exceptions in one behaviour

(***************************************************************************)
(* Program constants.                                                      *)
(***************************************************************************)
DEFAULT_INACTIVITY_THRESHOLD_DAYS == 90
DEFAULT_GRACE_PERIOD_DAYS == 30

(***************************************************************************)
(* Nullable columns: None is SQL NULL, <<v>> a value.                      *)
(***************************************************************************)
None == << >>
Some(v) == << v >>

\* Python's `x or default` on a nullable integer column: NULL and 0 are falsy.
OrDefault(x, d) == IF x = None \/ x[1] = 0 THEN d ELSE x[1]

Orgs == {"o1", "o2"}
Users == {"u1", "u2"}
ConvIds == <<"c1", "c2">>
Convs == {ConvIds[i] : i \in 1..Len(ConvIds)}

\* The org_member rows present in the store: <<org_id, user_id>>.
Members ==
    {<<"o1", "u1">>, <<"o1", "u2">>, <<"o2", "u1">>}

\* How far one advance of the clock may go: a day, or a whole default grace
\* period at once.
TickSteps == {1, DEFAULT_GRACE_PERIOD_DAYS}

\* OrgMember.retention_status values (the column is a nullable string).
NullStatus == "NULL"
Active == "active"
Pending == "retention_pending"
Deleted == "retention_deleted"

VARIABLES
    now,            \* the clock, in days
    org,            \* Org rows: policy columns
    member,         \* committed org_member rows: retention columns
    meta,           \* committed conversation_metadata rows: last_updated_at
    saas,           \* committed conversation_metadata_saas rows: user_id, org_id
    audit,          \* committed retention_audit_log rows (a bag)
    sess,           \* the session's uncommitted changes
    batch_size,     \* the processor's batch_size attribute
    pc,             \* where the processor is
    todo,           \* organizations of the run still to be processed
    cur,            \* organization being processed
    batch,          \* rows the phase's query returned, in query order
    fails,          \* members whose processing raised in the last phase
    marked,         \* _process_org_retention: result of the mark phase
    deleted,        \* _process_org_retention: result of the delete phase
    recovered,      \* _process_org_retention: result of the recover phase
    total_marked,
    total_deleted,
    total_recovered,
    orgs_processed,
    errors,         \* __call__: organizations whose processing raised
    result,         \* summary the last finished run returned
    ticks,
    activity,
    failures,
    transitions,    \* history: how many retention transitions of each member
                    \* the current run has persisted
    conversation_expiration,  \* Org rows: the conversation_expiration column
    ce_batch_size,      \* ConversationExpirationProcessor.batch_size
    ce_pc,              \* where the conversation expiration processor is
    ce_todo,            \* its organizations still to be processed
    ce_cur,             \* the organization it processed last
    ce_batch,           \* rows its query returned for that organization
    ce_fails,           \* conversations whose deletion raised
    ce_deleted_count,   \* _process_org_conversations: its return value
    ce_total_deleted,
    ce_orgs_processed,
    ce_errors,
    ce_result,          \* summary its last finished run returned
    max_retries,        \* AuthTokenStore.max_retries
    token_row,          \* the stored token row of the user and provider
    rotations,          \* times another process has rotated the row
    tk_pc,              \* where load_tokens is
    attempt,            \* iterations of the retry loop started
    seen_row,           \* the row as read under the row lock
    refresh_calls,      \* calls of check_expiration_and_refresh
    refresh_error,      \* the error the last such call raised, if any
    sleeps,             \* durations of the asyncio.sleep calls, in ms
    retry_reads,        \* reads of the row after a backoff
    tk_result,          \* what load_tokens returned or raised
    lock_covers_refresh,  \* load_tokens: whether the transaction of the
                        \* locked read also spans the refresh call
    row_lock,           \* the process holding the row lock, or 0
    upstream_token,     \* version of the refresh token the provider accepts
    rc_pc,              \* two concurrent load_tokens calls: each caller's
                        \* position,
    rc_attempt,         \* its iterations of the retry loop,
    rc_seen,            \* the row it read under the lock,
    rc_new,             \* the tokens the provider issued to it,
    rc_result,          \* and what its call returned or raised
    MAX_CONCURRENT_RUNTIME_WAITS,  \* runtime_wait_tracker: configured ceiling
    current_wait_count, \* runtime_wait_tracker._current_wait_count
    wait_state,         \* each coroutine: inside track_runtime_wait, or how
                        \* its last use of it ended
    RUNTIME_WAIT_TOTAL, \* counter slack_runtime_wait_total
    RUNTIME_WAIT_COMPLETED,  \* counter slack_runtime_wait_completed,
                        \* by its status label
    raw_payload,        \* JiraPayloadParser.parse: the webhook payload
    parse_result        \* JiraPayloadParser.parse: what the call gave

sweeper ==
    <<conversation_expiration, ce_batch_size, ce_pc, ce_todo, ce_cur,
      ce_batch, ce_fails, ce_deleted_count, ce_total_deleted,
      ce_orgs_processed, ce_errors, ce_result>>

token_store ==
    <<max_retries, token_row, rotations, tk_pc, attempt, seen_row,
      refresh_calls, refresh_error, sleeps, retry_reads, tk_result>>

wait_tracker ==
    <<MAX_CONCURRENT_RUNTIME_WAITS, current_wait_count, wait_state,
      RUNTIME_WAIT_TOTAL, RUNTIME_WAIT_COMPLETED>>

refresh_race ==
    <<lock_covers_refresh, row_lock, upstream_token, rc_pc, rc_attempt,
      rc_seen, rc_new, rc_result>>

jira == <<raw_payload, parse_result>>

components == <<token_store, refresh_race, wait_tracker, jira>>

vars ==
    <<now, org, member, meta, saas, audit, sess, batch_size, pc, todo, cur, batch, fails,
      marked, deleted, recovered, total_marked, total_deleted,
      total_recovered, orgs_processed, errors, result, ticks, activity,
      failures, transitions, sweeper, components>>

store == <<member, meta, saas, audit>>
locals ==
    <<todo, cur, batch, fails, marked, deleted, recovered, total_marked,
      total_deleted, total_recovered, orgs_processed, errors>>

(***************************************************************************)
(* The session.                                                            *)
(***************************************************************************)
\* A session with nothing pending.
EmptySession ==
    [member |-> << >>, del_meta |-> {}, del_saas |-> {}, audit |-> EmptyBag]

\* What the session reads: committed rows overlaid with its pending changes.
ViewMember(s, m) == IF m \in DOMAIN s.member THEN s.member[m] ELSE member[m]
ViewMeta(s) == DOMAIN meta \ s.del_meta
ViewSaas(s) == DOMAIN saas \ s.del_saas

\* session.commit(): the tables after the pending changes are persisted.
CommitMember(s) == [m \in DOMAIN member |-> ViewMember(s, m)]
CommitMeta(s) == [c \in ViewMeta(s) |-> meta[c]]
CommitSaas(s) == [c \in ViewSaas(s) |-> saas[c]]
\* The pending audit rows taking the place of the persisted ones.
CommitAudit_Replaces(s) == s.audit

CommitAudit(s) == audit (+) s.audit

Max(S) == CHOOSE x \in S : \A y \in S : y <= x

Min(a, b) == IF a <= b THEN a ELSE b

\* f with key k bound to v (an INSERT or UPDATE of one row).
Put(f, k, v) == [x \in DOMAIN f \cup {k} |-> IF x = k THEN v ELSE f[x]]

\* query.limit(batch_size).all() over the rows `cands`: with no ORDER BY the
\* database returns any batch_size of them (all, when there are fewer), in
\* any order.
QueryLimit_Unlimited(cands) ==
    LET n == Cardinality(cands)
    IN  {q \in [1..n -> cands] : \A i, j \in 1..n : q[i] = q[j] => i = j}

QueryLimit(cands) ==
    LET n == Min(batch_size, Cardinality(cands))
    IN  {q \in [1..n -> cands] : \A i, j \in 1..n : q[i] = q[j] => i = j}

ToSet(q) == {q[i] : i \in 1..Len(q)}

(***************************************************************************)
(* __call__: organizations with the retention policy enabled.              *)
(***************************************************************************)
\* The filter with only the IS NOT NULL test.
PolicyEnabled_NotNull(o) == org[o].inactive_user_retention_days # None

PolicyEnabled(o) ==
    /\ org[o].inactive_user_retention_days # None
    /\ org[o].inactive_user_retention_days[1] > 0

OrgsWithRetention == {o \in Orgs : PolicyEnabled(o)}

\* _process_org_retention: the thresholds a run uses for organization o.
InactivityDays(o) ==
    OrDefault(org[o].inactive_user_retention_days, DEFAULT_INACTIVITY_THRESHOLD_DAYS)

\* The grace period with no default: a missing value counts as 0 days.
GraceDays_NoDefault(o) ==
    IF org[o].inactive_user_grace_period_days = None THEN 0
    ELSE org[o].inactive_user_grace_period_days[1]

GraceDays(o) ==
    OrDefault(org[o].inactive_user_grace_period_days, DEFAULT_GRACE_PERIOD_DAYS)

(***************************************************************************)
(* _get_user_last_activity: max(last_updated_at) over the user's           *)
(* conversations in the organization (metadata joined with its SaaS row),  *)
(* NULL when there is none.                                                *)
(***************************************************************************)
UserConversations(s, user_id, org_id) ==
    {c \in ViewSaas(s) \cap ViewMeta(s) :
        saas[c] = [user_id |-> user_id, org_id |-> org_id]}

get_user_last_activity(s, user_id, org_id) ==
    LET cs == UserConversations(s, user_id, org_id)
    IN  IF cs = {} THEN None ELSE Some(Max({meta[c] : c \in cs}))

(***************************************************************************)
(* _create_audit_log: session.add(RetentionAuditLog(...)).  The row's id   *)
(* and created_at are column defaults and are left out (the table is a bag *)
(* of rows); details keeps the wording and drops the timestamp or count    *)
(* the message embeds.                                                     *)
(***************************************************************************)
AuditRow(user_id, org_id, action, triggered_by, data_scope, details) ==
    [user_id |-> user_id, org_id |-> org_id, action |-> action,
     triggered_by |-> triggered_by, data_scope |-> data_scope,
     details |-> details]

\* The row is built and never added to the session.
create_audit_log_NotAdded(s, user_id, org_id, action, triggered_by, data_scope, details) ==
    s

create_audit_log(s, user_id, org_id, action, triggered_by, data_scope, details) ==
    [s EXCEPT !.audit =
        @ (+) SetToBag({AuditRow(user_id, org_id, action, triggered_by,
                                 data_scope, details)})]

(***************************************************************************)
(* _mark_inactive_users.                                                   *)
(***************************************************************************)
\* The query with the status filter left out.
MarkCandidates_NoStatusFilter(s, o) == {m \in DOMAIN member : m[1] = o}

\* The status filter letting the members already marked through.
MarkCandidates_WithPending(s, o) ==
    {m \in DOMAIN member :
        /\ m[1] = o
        /\ ViewMember(s, m).retention_status \in {NullStatus, Active, Pending}}

\* The query for members not already marked for retention.
MarkCandidates(s, o) ==
    {m \in DOMAIN member :
        /\ m[1] = o
        /\ ViewMember(s, m).retention_status \in {NullStatus, Active}}

\* A missing activity is not taken for inactivity.
IsInactive_NoneIsActive(last_activity, threshold) ==
    last_activity # None /\ last_activity[1] < threshold

\* `<=` for `<`.
IsInactive_AtThreshold(last_activity, threshold) ==
    last_activity = None \/ last_activity[1] <= threshold

\* `last_activity < threshold`, a missing activity standing for datetime.min.
IsInactive(last_activity, threshold) ==
    last_activity = None \/ last_activity[1] < threshold

\* One iteration of the loop over active_members; st = [s, n]: the session
\* and marked_count.
MarkStep(st, m, threshold) ==
    LET last_activity == get_user_last_activity(st.s, m[2], m[1])
    IN  IF IsInactive(last_activity, threshold)
        THEN [s |-> create_audit_log(
                        [st.s EXCEPT !.member =
                            Put(@, m, [retention_status |-> Pending,
                                       retention_pending_since |-> Some(now)])],
                        m[2], m[1], "marked", "policy", None,
                        IF last_activity = None THEN "never" ELSE "Last activity"),
              n |-> st.n + 1]
        ELSE st

RECURSIVE MarkLoop(_, _, _, _)
MarkLoop(st, q, i, threshold) ==
    IF i > Len(q) THEN st
    ELSE MarkLoop(MarkStep(st, q[i], threshold), q, i + 1, threshold)

(***************************************************************************)
(* _delete_user_conversations and _delete_retention_pending_users.         *)
(***************************************************************************)
\* The query with `<=` for `<`.
DeleteCandidates_AtGrace(s, o, grace_threshold) ==
    {m \in DOMAIN member :
        /\ m[1] = o
        /\ ViewMember(s, m).retention_status = Pending
        /\ ViewMember(s, m).retention_pending_since # None
        /\ ViewMember(s, m).retention_pending_since[1] <= grace_threshold}

\* The query for members past the grace period.
DeleteCandidates(s, o, grace_threshold) ==
    {m \in DOMAIN member :
        /\ m[1] = o
        /\ ViewMember(s, m).retention_status = Pending
        /\ ViewMember(s, m).retention_pending_since # None
        /\ ViewMember(s, m).retention_pending_since[1] < grace_threshold}

\* Only the SaaS rows are deleted; the main metadata rows stay.
delete_user_conversations_KeepsMetadata(s, user_id, org_id) ==
    LET conversations ==
            {c \in ViewSaas(s) :
                saas[c] = [user_id |-> user_id, org_id |-> org_id]}
    IN  [s |-> [s EXCEPT !.del_saas = @ \cup conversations],
         n |-> Cardinality(conversations)]

\* Deletes the metadata row and the SaaS row of every conversation whose
\* SaaS row belongs to the user in the organization; returns the session and
\* the number of conversations deleted.
\* The conversations selected by the user alone, whatever the organization.
delete_user_conversations_AnyOrg(s, user_id, org_id) ==
    LET conversations ==
            {c \in ViewSaas(s) : saas[c].user_id = user_id}
    IN  [s |-> [s EXCEPT !.del_meta = @ \cup (conversations \cap DOMAIN meta),
                         !.del_saas = @ \cup conversations],
         n |-> Cardinality(conversations)]

delete_user_conversations(s, user_id, org_id) ==
    LET conversations ==
            {c \in ViewSaas(s) :
                saas[c] = [user_id |-> user_id, org_id |-> org_id]}
    IN  [s |-> [s EXCEPT !.del_meta = @ \cup (conversations \cap DOMAIN meta),
                         !.del_saas = @ \cup conversations],
         n |-> Cardinality(conversations)]

\* One iteration of the loop over pending_members; `failing` are the members
\* for which deleting raises: the except clause rolls the session back and
\* continues.
DeleteStep(st, m, failing) ==
    IF m \in failing
    THEN [s |-> EmptySession, n |-> st.n]
    ELSE LET d == delete_user_conversations(st.s, m[2], m[1])
         IN  [s |-> create_audit_log(
                        [d.s EXCEPT !.member =
                            Put(@, m, [ViewMember(d.s, m) EXCEPT
                                          !.retention_status = Deleted])],
                        m[2], m[1], "deleted", "policy", Some(d.n), "Deleted"),
              n |-> st.n + 1]

RECURSIVE DeleteLoop(_, _, _, _)
DeleteLoop(st, q, i, failing) ==
    IF i > Len(q) THEN st
    ELSE DeleteLoop(DeleteStep(st, q[i], failing), q, i + 1, failing)

(***************************************************************************)
(* _recover_active_users.                                                  *)
(***************************************************************************)
\* The query for members in retention_pending.
RecoverCandidates(s, o) ==
    {m \in DOMAIN member :
        /\ m[1] = o
        /\ ViewMember(s, m).retention_status = Pending}

\* Every pending member taken for recently active.
IsRecent_Always(last_activity, threshold) == TRUE

\* `last_activity and last_activity >= threshold`.
IsRecent(last_activity, threshold) ==
    last_activity # None /\ last_activity[1] >= threshold

RecoverStep(st, m, threshold) ==
    LET last_activity == get_user_last_activity(st.s, m[2], m[1])
    IN  IF IsRecent(last_activity, threshold)
        THEN [s |-> create_audit_log(
                        [st.s EXCEPT !.member =
                            Put(@, m, [retention_status |-> Active,
                                       retention_pending_since |-> None])],
                        m[2], m[1], "recovered", "policy", None, "User became active again"),
              n |-> st.n + 1]
        ELSE st

RECURSIVE RecoverLoop(_, _, _, _)
RecoverLoop(st, q, i, threshold) ==
    IF i > Len(q) THEN st
    ELSE RecoverLoop(RecoverStep(st, q[i], threshold), q, i + 1, threshold)

(***************************************************************************)
(* Initial state: the membership rows exist with their retention columns   *)
(* NULL, no conversation has been recorded, nothing is audited.            *)
(*                                                                         *)
(* o1 sets both thresholds (2 and 1 days).  A configuration fixes the      *)
(* processor's batch_size (a class attribute, 50 by default; the model     *)
(* runs it with 1 or 2 so that the two members of o1 exceed a batch or fit *)
(* in one) and the policy of o2: the inactivity threshold set and the      *)
(* grace period omitted, or no retention policy (NULL or 0 days).          *)
(***************************************************************************)
Policy(retention_days, grace_period_days) ==
    [inactive_user_retention_days |-> retention_days,
     inactive_user_grace_period_days |-> grace_period_days]

Configurations ==
    {[batch_size |-> 2, o2 |-> Policy(Some(1), None)],
     [batch_size |-> 1, o2 |-> Policy(None, Some(1))],
     [batch_size |-> 2, o2 |-> Policy(Some(0), Some(1))]}

(***************************************************************************)
(* AuthTokenStore.load_tokens: the token-refresh race guard.               *)
(* Its code is not among the files of the repository at hand; the model    *)
(* follows the description of the guard and the calls that the tests of    *)
(* tests/unit/storage/test_auth_token_store.py observe: the row read under *)
(* the lock, the refresh callback, asyncio.sleep(0.5), the read after it.  *)
(***************************************************************************)
DefaultMaxRetries == 3
BackoffMs == 500
MaxRotations == 2  \* rotations of the stored tokens in one behaviour

\* The token row after its v-th rotation.
TokenRow(v) ==
    [version |-> v,
     access_token |-> <<"access", v>>,
     refresh_token |-> <<"refresh", v>>,
     access_token_expires_at |-> 1000 + 2000 * v,
     refresh_token_expires_at |-> 2000 + 2000 * v]

\* The dict load_tokens returns for a row.
Tokens(row) ==
    [access_token |-> row.access_token,
     refresh_token |-> row.refresh_token,
     access_token_expires_at |-> row.access_token_expires_at,
     refresh_token_expires_at |-> row.refresh_token_expires_at]

\* Responses of the identity provider to a refresh that fails.
UpstreamErrors ==
    {[status_code |-> 400, error |-> "invalid_grant"],
     [status_code |-> 500, error |-> "server_error"]}

\* Every upstream error taken for the race.
IsInvalidGrant_AnyError(e) == TRUE

\* The race is told from a fatal upstream error by the error code.
IsInvalidGrant(e) == e.error = "invalid_grant"

\* The loop allowing one more iteration than max_retries.
MoreAttempts_OneExtra == attempt <= max_retries

\* for attempt in range(max_retries)
MoreAttempts == attempt < max_retries

\* The retry read handing back whatever row it finds.
UpdatedTokens_AnyRow(row, seen) == row

\* The read after the backoff never finding another process's tokens.
UpdatedTokens_NeverFound(row, seen) == None

\* The read after the backoff: the row, when another process has stored
\* rotated tokens since the read under the lock.
UpdatedTokens(row, seen) ==
    IF row # None /\ row # seen THEN row ELSE None

\* The processes that call load_tokens for the same user and provider.
Callers == {1, 2}

\* The pair the callers start from has expired; a pair the provider has
\* just issued has not.
Expired(row) == row.version = 0

\* The provider accepts a refresh token once: the one it issued last.
UpstreamAccepts(row) == row.version = upstream_token

RaceIdle ==
    /\ lock_covers_refresh = TRUE
    /\ row_lock = 0
    /\ upstream_token = 0
    /\ rc_pc = [c \in Callers |-> "idle"]
    /\ rc_attempt = [c \in Callers |-> 0]
    /\ rc_seen = [c \in Callers |-> None]
    /\ rc_new = [c \in Callers |-> None]
    /\ rc_result = [c \in Callers |-> [kind |-> "none"]]

TokenStoreIdle ==
    /\ rotations = 0
    /\ tk_pc = "idle"
    /\ attempt = 0
    /\ seen_row = None
    /\ refresh_calls = 0
    /\ refresh_error = None
    /\ sleeps = << >>
    /\ retry_reads = 0
    /\ tk_result = [kind |-> "none"]

(***************************************************************************)
(* integrations/slack/runtime_wait_tracker.py                              *)
(***************************************************************************)
NumCoroutines == 3   \* coroutines that use track_runtime_wait
MaxCeiling == 2      \* largest configured ceiling explored
MaxEntries == 5      \* entries into track_runtime_wait in one behaviour

Coroutines == 1..NumCoroutines

\* os.environ.get('SLACK_MAX_CONCURRENT_RUNTIME_WAITS', '100')
DefaultMaxConcurrentRuntimeWaits == 100

\* The guard letting a coroutine in at the ceiling.
AtCeiling_OnlyAbove(count, ceiling) == count > ceiling

\* if _current_wait_count >= MAX_CONCURRENT_RUNTIME_WAITS
AtCeiling(count, ceiling) == count >= ceiling

\* How the body of the 'async with' block can end: normally, with the
\* timeout or another Exception, or cancelled (not an Exception).
WaitEndings == {"success", "timeout", "error", "cancelled"}

\* The values of the status label of RUNTIME_WAIT_COMPLETED.
CompletionStatuses == {"success", "timeout", "error", "rejected"}

\* The counter in an 'except Exception' clause beside the two increments.
CountAfterExit_NotOnCancel(count, ending) ==
    IF ending = "cancelled" THEN count ELSE count - 1

\* finally: _current_wait_count -= 1
CountAfterExit(count, ending) == count - 1

\* The completion counters after the body ended: 'success' after the yield
\* returned, 'timeout' or 'error' in the 'except Exception' clause; a
\* cancellation is no Exception and passes by both.
CompletedAfterExit(completed, ending) ==
    IF ending \in {"success", "timeout", "error"}
    THEN [completed EXCEPT ![ending] = @ + 1]
    ELSE completed

WaitTrackerIdle ==
    /\ current_wait_count = 0
    /\ wait_state = [c \in Coroutines |-> "outside"]
    /\ RUNTIME_WAIT_TOTAL = 0
    /\ RUNTIME_WAIT_COMPLETED = [s \in CompletionStatuses |-> 0]

(***************************************************************************)
(* integrations/jira/jira_payload.py                                       *)
(*                                                                         *)
(* A JSON value is a tagged tuple; a key a dict does not have holds Absent.*)
(* A Python string is the sequence of its pieces, '' being the empty one,  *)
(* cut so that '://', '/rest/' and the words looked for are pieces.        *)
(***************************************************************************)
Absent == <<"absent">>
Null == <<"null">>
Str(s) == <<"str", s>>
List(l) == <<"list", l>>
Obj(d) == <<"obj", d>>

\* dict.get(key, default)
get(d, key, default) == IF d[key][1] = "absent" THEN default ELSE d[key]

\* 'not x' for None, '' and non-empty strings
Falsy(v) == v[1] = "null" \/ (v[1] = "str" /\ v[2] = << >>)

\* The parser's configuration.
oh_label == <<"openhands">>
inline_oh_label == <<"@openhands">>

EmptyUser == [emailAddress |-> Absent, displayName |-> Absent, accountId |-> Absent]
EmptyIssue == [id |-> Absent, key |-> Absent, self |-> Absent]
EmptyChangelog == [items |-> Absent]
EmptyComment == [body |-> Absent, author |-> Absent]

FullUser ==
    [emailAddress |-> Str(<<"dev@acme.com">>),
     displayName |-> Str(<<"Dev">>),
     accountId |-> Str(<<"5b10ac8d">>)]

UserValues ==
    {Absent, Null, Obj(EmptyUser), Obj(FullUser)}
    \cup {Obj([FullUser EXCEPT ![k] = v]) :
            k \in {"emailAddress", "displayName", "accountId"},
            v \in {Absent, Null, Str(<< >>)}}

SelfUrls ==
    {<< >>,
     <<"https", "://", "acme.atlassian.net", "/rest/", "api/2/issue/10001">>,
     <<"https", "://", "jira.acme.com", "/browse/", "OH-1">>,
     <<"https", "://", "/rest/", "api/2/issue/10001">>,
     <<"/rest/", "api/2/issue/10001">>,
     <<"acme.atlassian.net", "/browse/", "OH-1">>}

FullIssue ==
    [id |-> Str(<<"10001">>),
     key |-> Str(<<"OH-1">>),
     self |-> Str(<<"https", "://", "acme.atlassian.net", "/rest/",
                    "api/2/issue/10001">>)]

IssueValues ==
    {Absent, Null, Obj(EmptyIssue)}
    \cup {Obj([FullIssue EXCEPT !.self = Str(u)]) : u \in SelfUrls}
    \cup {Obj([FullIssue EXCEPT !.self = v]) : v \in {Absent, Null}}
    \cup {Obj([FullIssue EXCEPT ![k] = v]) :
            k \in {"id", "key"}, v \in {Absent, Null, Str(<< >>)}}

LabelItem(label) == [field |-> Str(<<"labels">>), toString |-> Str(label)]

ChangelogValues ==
    {Absent, Null, Obj(EmptyChangelog)}
    \cup {Obj([items |-> List(l)]) :
            l \in {<< >>,
                   <<LabelItem(oh_label)>>,
                   <<LabelItem(<<"bug">>)>>,
                   <<[field |-> Str(<<"status">>), toString |-> Str(<<"Done">>)],
                     LabelItem(oh_label)>>,
                   <<[field |-> Str(<<"labels">>), toString |-> Absent]>>}}

CommentBodies ==
    {Absent, Str(<< >>), Str(<<"please look">>),
     Str(<<"@openhands", " fix this">>)}

CommentValues ==
    {Absent, Null}
    \cup {Obj([body |-> b, author |-> a]) :
            b \in CommentBodies, a \in UserValues}

WebhookEvents ==
    {Absent, Str(<<"jira:issue_updated">>), Str(<<"comment_created">>),
     Str(<<"jira:issue_created">>)}

RawPayloads ==
    [webhookEvent : WebhookEvents, changelog : ChangelogValues,
     user : UserValues, comment : CommentValues, issue : IssueValues]

\* JiraPayloadParseResult.ok / skip / fail, and an exception leaving parse
ParseOk(payload) == [kind |-> "ok", payload |-> payload]
ParseSkip(reason) == [kind |-> "skip", skip_reason |-> reason]
ParseFail(error) == [kind |-> "fail", error |-> error]
ParseRaised(exception) == [kind |-> "raised", exception |-> exception]

\* urllib.parse.urlparse on such a string: the scheme before '://' and the
\* network location after it, up to the path.
IsPath(piece) == piece \in {"/rest/", "/browse/"}

urlparse(url) ==
    IF Len(url) >= 2 /\ url[2] = "://" /\ ~IsPath(url[1])
    THEN [scheme |-> url[1],
          netloc |-> IF Len(url) >= 3 /\ ~IsPath(url[3]) THEN url[3] ELSE ""]
    ELSE [scheme |-> "", netloc |-> ""]

\* ''.join of the pieces that are not empty
Join(pieces) == SelectSeq(pieces, LAMBDA piece : piece # "")

\* self_url.split('/rest/')[0]
BeforeRest(url) ==
    LET i == CHOOSE i \in 1..Len(url) :
                 url[i] = "/rest/" /\ \A j \in 1..(i - 1) : url[j] # "/rest/"
    IN  SubSeq(url, 1, i - 1)

\* _extract_workspace_from_url: <<base_api_url, workspace_name>>
extract_workspace_from_url(self_url) ==
    IF Falsy(self_url)
    THEN <<Str(<< >>), Str(<< >>)>>
    ELSE LET base_api_url ==
                 IF \E i \in 1..Len(self_url[2]) : self_url[2][i] = "/rest/"
                 THEN BeforeRest(self_url[2])
                 ELSE LET parsed == urlparse(self_url[2])
                      IN  Join(<<parsed.scheme, "://", parsed.netloc>>)
             workspace_name == Join(<<urlparse(base_api_url).netloc>>)
         IN  <<Str(base_api_url), Str(workspace_name)>>

\* _extract_and_validate, lines 215-230: the names of the empty fields
MissingFields(fields) ==
    LET names == <<"issue.id", "issue.key", "user.emailAddress",
                   "user.displayName", "user.accountId",
                   "workspace_name (derived from issue.self)",
                   "base_api_url (derived from issue.self)">>
        Missing[i \in 0..7] ==
            IF i = 0 THEN << >>
            ELSE IF Falsy(fields[i]) THEN Append(Missing[i - 1], names[i])
                 ELSE Missing[i - 1]
    IN  Missing[7]

\* _extract_and_validate; calling .get on None raises AttributeError.
extract_and_validate(payload, user_data, event_type, webhook_event, comment_body) ==
    LET issue_data == get(payload, "issue", Obj(EmptyIssue))
    IN  IF issue_data[1] # "obj" THEN ParseRaised("AttributeError")
        ELSE IF user_data[1] # "obj" THEN ParseRaised("AttributeError")
        ELSE
          LET issue_id == get(issue_data[2], "id", Null)
              issue_key == get(issue_data[2], "key", Null)
              issue_self_url == get(issue_data[2], "self", Str(<< >>))
              user_email == get(user_data[2], "emailAddress", Null)
              display_name == get(user_data[2], "displayName", Null)
              account_id == get(user_data[2], "accountId", Null)
              workspace == extract_workspace_from_url(issue_self_url)
              base_api_url == workspace[1]
              workspace_name == workspace[2]
              missing_fields ==
                  MissingFields(<<issue_id, issue_key, user_email,
                                  display_name, account_id, workspace_name,
                                  base_api_url>>)
          IN  IF missing_fields # << >>
              THEN ParseFail(<<"Missing required fields">> \o missing_fields)
              ELSE ParseOk([event_type |-> event_type,
                            raw_event |-> webhook_event,
                            issue_id |-> issue_id,
                            issue_key |-> issue_key,
                            user_email |-> user_email,
                            display_name |-> display_name,
                            account_id |-> account_id,
                            workspace_name |-> workspace_name,
                            base_api_url |-> base_api_url,
                            comment_body |-> comment_body])

\* _parse_label_event
parse_label_event(payload, webhook_event) ==
    LET changelog == get(payload, "changelog", Obj(EmptyChangelog))
    IN  IF changelog[1] # "obj" THEN ParseRaised("AttributeError")
        ELSE
          LET items == get(changelog[2], "items", List(<< >>))[2]
              labels == {items[i].toString[2] :
                           i \in {j \in 1..Len(items) :
                                    /\ items[j].field = Str(<<"labels">>)
                                    /\ items[j].toString[1] # "absent"}}
          IN  IF oh_label \notin labels
              THEN ParseSkip("Label event does not contain the label")
              ELSE extract_and_validate(
                       payload, get(payload, "user", Obj(EmptyUser)),
                       "LABELED_TICKET", webhook_event, Str(<< >>))

\* integrations.utils.has_exact_mention
has_exact_mention(text, mention) ==
    \E i \in 1..Len(text[2]) : <<text[2][i]>> = mention

\* _parse_comment_event
parse_comment_event(payload, webhook_event) ==
    LET comment_data == get(payload, "comment", Obj(EmptyComment))
    IN  IF comment_data[1] # "obj" THEN ParseRaised("AttributeError")
        ELSE
          LET comment_body == get(comment_data[2], "body", Str(<< >>))
          IN  IF ~has_exact_mention(comment_body, inline_oh_label)
              THEN ParseSkip("Comment does not mention")
              ELSE extract_and_validate(
                       payload, get(comment_data[2], "author", Obj(EmptyUser)),
                       "COMMENT_MENTION", webhook_event, comment_body)

\* JiraPayloadParser.parse
parse(payload) ==
    LET webhook_event == get(payload, "webhookEvent", Str(<< >>))
    IN  IF webhook_event = Str(<<"jira:issue_updated">>)
        THEN parse_label_event(payload, webhook_event)
        ELSE IF webhook_event = Str(<<"comment_created">>)
        THEN parse_comment_event(payload, webhook_event)
        ELSE ParseSkip("Unhandled webhook event type")

JiraIdle ==
    /\ raw_payload = [webhookEvent |-> Absent, changelog |-> Absent,
                      user |-> Absent, comment |-> Absent, issue |-> Absent]
    /\ parse_result = [kind |-> "none"]

ComponentsIdle ==
    /\ max_retries = DefaultMaxRetries
    /\ token_row = Some(TokenRow(0))
    /\ TokenStoreIdle
    /\ RaceIdle
    /\ MAX_CONCURRENT_RUNTIME_WAITS = DefaultMaxConcurrentRuntimeWaits
    /\ WaitTrackerIdle
    /\ JiraIdle

\* The conversation expiration processor before its first run.
SweeperIdle ==
    /\ ce_pc = "idle"
    /\ ce_todo = {}
    /\ ce_cur = "none"
    /\ ce_batch = << >>
    /\ ce_fails = {}
    /\ ce_deleted_count = 0
    /\ ce_total_deleted = 0
    /\ ce_orgs_processed = 0
    /\ ce_errors = << >>
    /\ ce_result = [status |-> "none"]

Init ==
    /\ now = 0
    /\ \E cfg \in Configurations :
         /\ batch_size = cfg.batch_size
         /\ org = [o \in Orgs |->
                    IF o = "o1" THEN Policy(Some(2), Some(1)) ELSE cfg.o2]
    /\ member = [m \in Members |->
                   [retention_status |-> NullStatus,
                    retention_pending_since |-> None]]
    /\ meta = << >>
    /\ saas = << >>
    /\ audit = EmptyBag
    /\ sess = EmptySession
    /\ pc = "idle"
    /\ todo = {}
    /\ cur = "none"
    /\ batch = << >>
    /\ fails = {}
    /\ marked = 0
    /\ deleted = 0
    /\ recovered = 0
    /\ total_marked = 0
    /\ total_deleted = 0
    /\ total_recovered = 0
    /\ orgs_processed = 0
    /\ errors = << >>
    /\ result = [status |-> "none"]
    /\ ticks = 0
    /\ activity = 0
    /\ failures = 0
    /\ transitions = [m \in Members |-> 0]
    /\ conversation_expiration = [o \in Orgs |-> None]
    /\ ce_batch_size = 1
    /\ SweeperIdle
    /\ ComponentsIdle

(***************************************************************************)
(* The environment: the clock and the conversation subsystem.              *)
(***************************************************************************)
\* Time passes between two runs of the processor.
Tick(d) ==
    /\ pc = "idle"
    /\ ce_pc = "idle"
    /\ ticks < MaxTicks
    /\ now' = now + d
    /\ ticks' = ticks + 1
    /\ UNCHANGED <<org, batch_size, sweeper, components, transitions, store, sess, pc, locals, result, activity, failures>>

\* Where conversation activity is interleaved with the processor: between
\* runs, and between the delete and the recover phase of an organization.
\* A phase sees the conversations only through its queries, and the mark and
\* delete phases never read the activity of a member they did not select
\* before, so activity at any other point of a run has the effect of the same
\* activity before the run, at one of these points, or after the run.
EnvironmentPoints == {"idle", "recover"}

\* Conversation ids are generated; the model takes the first id not in use.
Unused == {c \in Convs : c \notin DOMAIN meta /\ c \notin DOMAIN saas}
FreshConv ==
    LET free == {i \in 1..Len(ConvIds) : ConvIds[i] \in Unused}
    IN  IF free = {} THEN "none"
        ELSE ConvIds[CHOOSE i \in free : \A j \in free : i <= j]

\* A user starts a conversation in an organization: both rows are inserted.
CreateConversation(c, m) ==
    /\ pc \in EnvironmentPoints
    /\ activity < MaxActivity
    /\ c = FreshConv
    /\ meta' = Put(meta, c, now)
    /\ saas' = Put(saas, c, [user_id |-> m[2], org_id |-> m[1]])
    /\ activity' = activity + 1
    /\ UNCHANGED <<now, org, batch_size, sweeper, components, transitions, member, audit, sess, pc, locals, result, ticks,
                   failures>>

\* A user continues a conversation: last_updated_at moves to now.  A row the
\* session has deleted but not committed is locked.
UpdateConversation(c) ==
    /\ pc \in EnvironmentPoints
    /\ c \in DOMAIN meta
    /\ c \notin sess.del_meta
    /\ meta[c] < now
    /\ meta' = [meta EXCEPT ![c] = now]
    /\ UNCHANGED <<now, org, batch_size, sweeper, components, transitions, member, saas, audit, sess, pc, locals, result,
                   ticks, activity, failures>>

(***************************************************************************)
(* InactiveUserDataRetentionProcessor.__call__.                            *)
(***************************************************************************)
\* session.commit()
Commit(s) ==
    /\ member' = CommitMember(s)
    /\ transitions' =
          [m \in Members |->
             IF CommitMember(s)[m].retention_status = member[m].retention_status
             THEN transitions[m] ELSE transitions[m] + 1]
    /\ meta' = CommitMeta(s)
    /\ saas' = CommitSaas(s)
    /\ audit' = CommitAudit(s)
    /\ sess' = EmptySession

\* A phase that changed nothing it counts leaves the session as it is.
NoCommit(s) ==
    /\ sess' = s
    /\ UNCHANGED <<store, transitions>>

\* The except clause swallowing the error without recording it.
OrgRaises_NotRecorded(o) ==
    /\ errors' = errors
    /\ pc' = "next"
    /\ failures' = failures + 1
    /\ cur' = "none"
    /\ batch' = << >>
    /\ fails' = {}
    /\ marked' = 0
    /\ deleted' = 0
    /\ recovered' = 0

\* The except clause of the loop over organizations: the error is recorded
\* and the loop goes on with the next organization, on the same session.
\* The locals of _process_org_retention are gone.
OrgRaises(o) ==
    /\ errors' = Append(errors, o)
    /\ pc' = "next"
    /\ failures' = failures + 1
    /\ cur' = "none"
    /\ batch' = << >>
    /\ fails' = {}
    /\ marked' = 0
    /\ deleted' = 0
    /\ recovered' = 0

\* The failure is reported and the loop over organizations runs all the same.
StartRun_GoesOnAfterFailure ==
    /\ pc = "idle"
    /\ \/ /\ todo' = OrgsWithRetention
          /\ pc' = "next"
          /\ UNCHANGED <<result, failures>>
       \/ /\ failures < MaxFailures
          /\ failures' = failures + 1
          /\ todo' = OrgsWithRetention
          /\ pc' = "next"
          /\ result' = [status |-> "error", orgs_processed |-> 0,
                        users_marked_for_retention |-> 0,
                        users_data_deleted |-> 0]
    /\ UNCHANGED <<now, org, batch_size, sweeper, components, transitions, store, sess, cur, batch, fails,
                   marked, deleted, recovered, total_marked, total_deleted,
                   total_recovered, orgs_processed, errors, ticks, activity>>

\* The run starts: the session is opened and the organizations with a
\* retention policy are queried.  Either may raise, which ends the run with
\* status 'error'.
StartRun ==
    /\ pc = "idle"
    /\ \/ /\ todo' = OrgsWithRetention
          /\ pc' = "next"
          /\ UNCHANGED <<result, failures>>
       \/ /\ failures < MaxFailures
          /\ failures' = failures + 1
          /\ todo' = {}
          /\ pc' = "done"
          /\ result' = [status |-> "error", orgs_processed |-> 0,
                        users_marked_for_retention |-> 0,
                        users_data_deleted |-> 0]
    /\ UNCHANGED <<now, org, batch_size, sweeper, components, transitions, store, sess, cur, batch, fails,
                   marked, deleted, recovered, total_marked, total_deleted,
                   total_recovered, orgs_processed, errors, ticks, activity>>

\* The scheduler invokes the processor again as soon as a run has returned
\* "completed"; the summary of that run stays at hand during the new one.
Rerun ==
    /\ pc = "done"
    /\ result.status = "completed"
    /\ todo' = OrgsWithRetention
    /\ pc' = "next"
    /\ UNCHANGED <<now, org, batch_size, sweeper, components, transitions, store, sess, cur, batch, fails,
                   marked, deleted, recovered, total_marked, total_deleted,
                   total_recovered, orgs_processed, errors, result, ticks,
                   activity, failures>>

\* Mark, except that the organization stays among those still to process.
Mark_KeepsOrgInTodo(o) ==
    /\ pc = "next"
    /\ o \in todo
    /\ todo' = todo
    /\ LET threshold == now - InactivityDays(o)
       IN  \E q \in QueryLimit(MarkCandidates(sess, o)) :
             \/ LET st == MarkLoop([s |-> sess, n |-> 0], q, 1, threshold)
                IN  /\ IF st.n > 0 THEN Commit(st.s) ELSE NoCommit(st.s)
                    /\ marked' = st.n
                    /\ cur' = o
                    /\ batch' = q
                    /\ fails' = {}
                    /\ pc' = "delete"
                    /\ UNCHANGED <<deleted, recovered, errors, failures>>
             \/ /\ failures < MaxFailures
                \* the activity query of member q[k] raises (k = 0: the
                \* member query itself does)
                /\ \E k \in (IF Len(q) = 0 THEN {0} ELSE 1..Len(q)) :
                     LET st == MarkLoop([s |-> sess, n |-> 0],
                                        SubSeq(q, 1, k - 1), 1, threshold)
                     IN  NoCommit(st.s)
                /\ OrgRaises(o)
    /\ UNCHANGED <<now, org, batch_size, sweeper, components, total_marked, total_deleted,
                   total_recovered, orgs_processed, result, ticks, activity>>

\* _process_org_retention, phase 1, for the next organization of the run.
Mark(o) ==
    /\ pc = "next"
    /\ o \in todo
    /\ todo' = todo \ {o}
    /\ LET threshold == now - InactivityDays(o)
       IN  \E q \in QueryLimit(MarkCandidates(sess, o)) :
             \/ LET st == MarkLoop([s |-> sess, n |-> 0], q, 1, threshold)
                IN  /\ IF st.n > 0 THEN Commit(st.s) ELSE NoCommit(st.s)
                    /\ marked' = st.n
                    /\ cur' = o
                    /\ batch' = q
                    /\ fails' = {}
                    /\ pc' = "delete"
                    /\ UNCHANGED <<deleted, recovered, errors, failures>>
             \/ /\ failures < MaxFailures
                \* the activity query of member q[k] raises (k = 0: the
                \* member query itself does)
                /\ \E k \in (IF Len(q) = 0 THEN {0} ELSE 1..Len(q)) :
                     LET st == MarkLoop([s |-> sess, n |-> 0],
                                        SubSeq(q, 1, k - 1), 1, threshold)
                     IN  NoCommit(st.s)
                /\ OrgRaises(o)
    /\ UNCHANGED <<now, org, batch_size, sweeper, components, total_marked, total_deleted,
                   total_recovered, orgs_processed, result, ticks, activity>>

\* _process_org_retention, phase 2.  Deleting the data of any of the selected
\* members may raise; the loop catches it.  The member query is outside the
\* loop's try: when it raises, the organization's processing raises.
Delete ==
    /\ pc = "delete"
    /\ \/ LET grace_threshold == now - GraceDays(cur)
          IN  \E q \in QueryLimit(DeleteCandidates(sess, cur, grace_threshold)) :
              \E failing \in SUBSET ToSet(q) :
                /\ failures + Cardinality(failing) <= MaxFailures
                /\ failures' = failures + Cardinality(failing)
                /\ batch' = q
                /\ fails' = failing
                /\ LET st == DeleteLoop([s |-> sess, n |-> 0], q, 1, failing)
                   IN  /\ IF st.n > 0 THEN Commit(st.s) ELSE NoCommit(st.s)
                       /\ deleted' = st.n
                /\ pc' = "recover"
                /\ UNCHANGED <<cur, marked, recovered, errors>>
       \/ /\ failures < MaxFailures
          /\ NoCommit(sess)
          /\ OrgRaises(cur)
    /\ UNCHANGED <<now, org, batch_size, sweeper, components, todo, total_marked, total_deleted,
                   total_recovered, orgs_processed, result, ticks, activity>>

\* _process_org_retention, phase 3.
Recover ==
    /\ pc = "recover"
    /\ LET threshold == now - InactivityDays(cur)
       IN  \E q \in QueryLimit(RecoverCandidates(sess, cur)) :
             \/ LET st == RecoverLoop([s |-> sess, n |-> 0], q, 1, threshold)
                IN  /\ IF st.n > 0 THEN Commit(st.s) ELSE NoCommit(st.s)
                    /\ recovered' = st.n
                    /\ batch' = q
                    /\ fails' = {}
                    /\ pc' = "processed"
                    /\ UNCHANGED <<cur, marked, deleted, errors, failures>>
             \/ /\ failures < MaxFailures
                /\ \E k \in (IF Len(q) = 0 THEN {0} ELSE 1..Len(q)) :
                     LET st == RecoverLoop([s |-> sess, n |-> 0],
                                           SubSeq(q, 1, k - 1), 1, threshold)
                     IN  NoCommit(st.s)
                /\ OrgRaises(cur)
    /\ UNCHANGED <<now, org, batch_size, sweeper, components, todo, total_marked, total_deleted,
                   total_recovered, orgs_processed, result, ticks, activity>>

\* __call__: the organization was processed without an exception; its counts
\* are added to the totals.
OrgProcessed ==
    /\ pc = "processed"
    /\ total_marked' = total_marked + marked
    /\ total_deleted' = total_deleted + deleted
    /\ total_recovered' = total_recovered + recovered
    /\ orgs_processed' = orgs_processed + 1
    /\ pc' = "next"
    /\ cur' = "none"
    /\ batch' = << >>
    /\ fails' = {}
    /\ marked' = 0
    /\ deleted' = 0
    /\ recovered' = 0
    /\ UNCHANGED <<now, org, batch_size, sweeper, components, transitions, store, sess, todo, errors, result,
                   ticks, activity, failures>>

\* Every organization has been handled: the session is closed (what it had
\* not committed is rolled back) and the summary is returned.
Finish ==
    /\ pc = "next"
    /\ todo = {}
    /\ sess' = EmptySession
    /\ result' = [status |-> IF errors = << >> THEN "completed"
                                               ELSE "completed_with_errors",
                  orgs_processed |-> orgs_processed,
                  users_marked_for_retention |-> total_marked,
                  users_data_deleted |-> total_deleted,
                  users_recovered |-> total_recovered,
                  errors |-> IF errors = << >> THEN None ELSE errors]
    /\ pc' = "done"
    /\ total_marked' = 0
    /\ total_deleted' = 0
    /\ total_recovered' = 0
    /\ orgs_processed' = 0
    /\ errors' = << >>
    /\ transitions' = [m \in Members |-> 0]
    /\ UNCHANGED <<now, org, batch_size, sweeper, components, store, todo, cur, batch, fails,
                   marked, deleted, recovered, ticks, activity, failures>>

\* The scheduler takes the summary.
Return ==
    /\ pc = "done"
    /\ pc' = "idle"
    /\ result' = [status |-> "none"]
    /\ UNCHANGED <<now, org, batch_size, sweeper, components, transitions, store, sess, locals, ticks, activity,
                   failures>>

\* The process running the processor dies inside a run: what the session had
\* not committed is lost with it, the tables stay as the last commit left
\* them, and no summary is returned.  The locals that tell how far the
\* organization in hand had got are kept for inspection until the restart.
Crash ==
    /\ pc \in {"next", "delete", "recover", "processed"}
    /\ failures < MaxFailures
    /\ failures' = failures + 1
    /\ pc' = "crashed"
    /\ sess' = EmptySession
    /\ todo' = {}
    /\ batch' = << >>
    /\ fails' = {}
    /\ total_marked' = 0
    /\ total_deleted' = 0
    /\ total_recovered' = 0
    /\ orgs_processed' = 0
    /\ errors' = << >>
    /\ transitions' = [m \in Members |-> 0]
    /\ UNCHANGED <<now, org, batch_size, sweeper, components, store, cur, marked, deleted,
                   recovered, result, ticks, activity>>

\* The scheduler has a fresh process ready for the next run.
Restart ==
    /\ pc = "crashed"
    /\ pc' = "idle"
    /\ cur' = "none"
    /\ marked' = 0
    /\ deleted' = 0
    /\ recovered' = 0
    /\ UNCHANGED <<now, org, batch_size, sweeper, components, transitions, store, sess, todo, batch, fails,
                   total_marked, total_deleted, total_recovered,
                   orgs_processed, errors, result, ticks, activity, failures>>

Next ==
    \/ \E d \in TickSteps : Tick(d)
    \/ \E c \in Convs, m \in Members : CreateConversation(c, m)
    \/ \E c \in Convs : UpdateConversation(c)
    \/ StartRun
    \/ \E o \in Orgs : Mark(o)
    \/ Delete
    \/ Recover
    \/ OrgProcessed
    \/ Finish
    \/ Return
    \/ Crash
    \/ Restart

Spec == Init /\ [][Next]_vars

\* The run in progress was started by Rerun.
InRerun ==
    /\ pc \in {"next", "delete", "recover", "processed"}
    /\ result.status = "completed"

\* The processor run twice in a row: as Next, with the immediate second run,
\* and with the conversation records changing between the runs only, so that
\* the second of two runs in a row finds them as the first one did.
NextRerun ==
    \/ \E d \in TickSteps : Tick(d)
    \/ \E c \in Convs : \E m \in Members : pc = "idle" /\ CreateConversation(c, m)
    \/ \E c \in Convs : pc = "idle" /\ UpdateConversation(c)
    \/ StartRun
    \/ Rerun
    \/ \E o \in Orgs : Mark(o)
    \/ Delete
    \/ Recover
    \/ OrgProcessed
    \/ Finish
    \/ Return
    \/ Crash
    \/ Restart

SpecRerun == Init /\ [][NextRerun]_vars

(***************************************************************************)
(* ConversationExpirationProcessor.                                        *)
(***************************************************************************)
\* The filter with only the IS NOT NULL test.
ExpirationEnabled_NotNull(o) == conversation_expiration[o] # None

\* __call__: organizations with conversation_expiration configured.
ExpirationEnabled(o) ==
    /\ conversation_expiration[o] # None
    /\ conversation_expiration[o][1] > 0

OrgsWithExpiration == {o \in Orgs : ExpirationEnabled(o)}

\* _process_org_conversations: the org-scoped records of o joined with the
\* metadata rows last updated before the threshold.
ExpiredConversations(o, threshold) ==
    {c \in DOMAIN saas \cap DOMAIN meta :
        /\ saas[c].org_id = o
        /\ meta[c] < threshold}

\* The query without its .limit(self.batch_size).
ExpiredBatch_NoLimit(cands) ==
    LET n == Cardinality(cands)
    IN  {q \in [1..n -> cands] : \A i, j \in 1..n : q[i] = q[j] => i = j}

\* .limit(self.batch_size).all(): any batch_size of the rows, in any order.
ExpiredBatch(cands) ==
    LET n == Min(ce_batch_size, Cardinality(cands))
    IN  {q \in [1..n -> cands] : \A i, j \in 1..n : q[i] = q[j] => i = j}

\* The except clause without its session.rollback().
SweepStep_NoRollback(st, c, failing) ==
    LET s1 == [st.s EXCEPT !.del_meta = @ \cup {c}]
    IN  IF c \in failing
        THEN [s |-> s1, n |-> st.n]
        ELSE [s |-> [s1 EXCEPT !.del_saas = @ \cup {c}], n |-> st.n + 1]

\* One iteration of the loop: the metadata row is deleted, then the
\* org-scoped record.  When the deletion of a conversation raises (in the
\* model the second statement does, the first having run), the session is
\* rolled back, which drops every deletion pending in it, and the loop goes
\* on; the count is not taken back.
SweepStep(st, c, failing) ==
    LET s1 == [st.s EXCEPT !.del_meta = @ \cup {c}]
    IN  IF c \in failing
        THEN [s |-> EmptySession, n |-> st.n]
        ELSE [s |-> [s1 EXCEPT !.del_saas = @ \cup {c}], n |-> st.n + 1]

RECURSIVE SweepLoop(_, _, _, _)
SweepLoop(st, q, i, failing) ==
    IF i > Len(q) THEN st
    ELSE SweepLoop(SweepStep(st, q[i], failing), q, i + 1, failing)

\* Stored conversations as the fixtures of the tests have them: one
\* conversation of o1, last updated two days ago.  The batch size and the
\* expiration periods of the organizations vary.
ExpirationConfigurations ==
    {[batch_size |-> 2, o1 |-> Some(1), o2 |-> Some(2)],
     [batch_size |-> 1, o1 |-> Some(1), o2 |-> None],
     [batch_size |-> 2, o1 |-> Some(1), o2 |-> Some(0)]}

InitSweeper ==
    /\ now = 0
    /\ batch_size = 1
    /\ org = [o \in Orgs |-> Policy(None, None)]
    /\ member = [m \in Members |->
                   [retention_status |-> NullStatus,
                    retention_pending_since |-> None]]
    /\ meta = Put(<< >>, ConvIds[1], 0 - 2)
    /\ saas = Put(<< >>, ConvIds[1], [user_id |-> "u1", org_id |-> "o1"])
    /\ audit = EmptyBag
    /\ sess = EmptySession
    /\ pc = "idle"
    /\ todo = {}
    /\ cur = "none"
    /\ batch = << >>
    /\ fails = {}
    /\ marked = 0
    /\ deleted = 0
    /\ recovered = 0
    /\ total_marked = 0
    /\ total_deleted = 0
    /\ total_recovered = 0
    /\ orgs_processed = 0
    /\ errors = << >>
    /\ result = [status |-> "none"]
    /\ ticks = 0
    /\ activity = 0
    /\ failures = 0
    /\ transitions = [m \in Members |-> 0]
    /\ \E cfg \in ExpirationConfigurations :
         /\ ce_batch_size = cfg.batch_size
         /\ conversation_expiration =
               [o \in Orgs |-> IF o = "o1" THEN cfg.o1 ELSE cfg.o2]
    /\ SweeperIdle
    /\ ComponentsIdle

\* What no step of the conversation expiration processor changes.
retention ==
    <<now, org, member, audit, sess, batch_size, pc, locals, result, ticks,
      activity, transitions, conversation_expiration, ce_batch_size,
      components>>

\* __call__ opens the session and reads the organizations; when that raises,
\* the run returns the error summary.
StartSweep ==
    /\ ce_pc = "idle"
    /\ \/ /\ ce_todo' = OrgsWithExpiration
          /\ ce_pc' = "next"
          /\ UNCHANGED <<ce_result, failures>>
       \/ /\ failures < MaxFailures
          /\ failures' = failures + 1
          /\ ce_todo' = {}
          /\ ce_pc' = "done"
          /\ ce_result' = [status |-> "error", orgs_processed |-> 0,
                           conversations_deleted |-> 0]
    /\ UNCHANGED <<retention, meta, saas, ce_cur, ce_batch, ce_fails,
                   ce_deleted_count, ce_total_deleted, ce_orgs_processed,
                   ce_errors>>

\* One iteration of the loop over the organizations:
\* _process_org_conversations, whose query may raise, in which case the
\* organization is recorded in errors.
SweepOrg(o) ==
    /\ ce_pc = "next"
    /\ o \in ce_todo
    /\ ce_todo' = ce_todo \ {o}
    /\ ce_cur' = o
    /\ \/ LET threshold == now - conversation_expiration[o][1]
          IN  \E q \in ExpiredBatch(ExpiredConversations(o, threshold)) :
              \E failing \in SUBSET ToSet(q) :
                /\ failures + Cardinality(failing) <= MaxFailures
                /\ failures' = failures + Cardinality(failing)
                /\ ce_batch' = q
                /\ ce_fails' = failing
                /\ LET st == SweepLoop([s |-> EmptySession, n |-> 0], q, 1,
                                       failing)
                   IN  /\ IF st.n > 0
                          THEN /\ meta' = CommitMeta(st.s)
                               /\ saas' = CommitSaas(st.s)
                          ELSE UNCHANGED <<meta, saas>>
                       /\ ce_deleted_count' = st.n
                       /\ ce_total_deleted' = ce_total_deleted + st.n
                /\ ce_orgs_processed' = ce_orgs_processed + 1
                /\ UNCHANGED ce_errors
       \/ /\ failures < MaxFailures
          /\ failures' = failures + 1
          /\ ce_errors' = Append(ce_errors, o)
          /\ ce_batch' = << >>
          /\ ce_fails' = {}
          /\ ce_deleted_count' = 0
          /\ UNCHANGED <<meta, saas, ce_total_deleted, ce_orgs_processed>>
    /\ UNCHANGED <<retention, ce_pc, ce_result>>

\* The summary with the status 'completed' whatever happened.
FinishSweep_AlwaysCompleted ==
    /\ ce_pc = "next"
    /\ ce_todo = {}
    /\ ce_result' = [status |-> "completed",
                     orgs_processed |-> ce_orgs_processed,
                     conversations_deleted |-> ce_total_deleted,
                     errors |-> IF ce_errors = << >> THEN None ELSE ce_errors]
    /\ ce_pc' = "done"
    /\ UNCHANGED <<retention, meta, saas, failures, ce_todo, ce_cur, ce_batch,
                   ce_fails, ce_deleted_count, ce_total_deleted,
                   ce_orgs_processed, ce_errors>>

\* Every organization has been handled: the summary is returned.
FinishSweep ==
    /\ ce_pc = "next"
    /\ ce_todo = {}
    /\ ce_result' = [status |-> IF ce_errors = << >> THEN "completed"
                                ELSE "completed_with_errors",
                     orgs_processed |-> ce_orgs_processed,
                     conversations_deleted |-> ce_total_deleted,
                     errors |-> IF ce_errors = << >> THEN None ELSE ce_errors]
    /\ ce_pc' = "done"
    /\ UNCHANGED <<retention, meta, saas, failures, ce_todo, ce_cur, ce_batch,
                   ce_fails, ce_deleted_count, ce_total_deleted,
                   ce_orgs_processed, ce_errors>>

\* The scheduler takes the summary; the next run starts from fresh locals.
ReturnSweep ==
    /\ ce_pc = "done"
    /\ ce_pc' = "idle"
    /\ ce_cur' = "none"
    /\ ce_batch' = << >>
    /\ ce_fails' = {}
    /\ ce_deleted_count' = 0
    /\ ce_total_deleted' = 0
    /\ ce_orgs_processed' = 0
    /\ ce_errors' = << >>
    /\ ce_result' = [status |-> "none"]
    /\ UNCHANGED <<retention, meta, saas, failures, ce_todo>>

NextSweeper ==
    \/ \E d \in TickSteps : Tick(d)
    \/ \E c \in Convs, m \in Members : CreateConversation(c, m)
    \/ \E c \in Convs : UpdateConversation(c)
    \/ StartSweep
    \/ \E o \in Orgs : SweepOrg(o)
    \/ FinishSweep
    \/ ReturnSweep

SweeperSpec == InitSweeper /\ [][NextSweeper]_vars

\* The scheduler runs the processor again and again, and a run that has
\* started goes on to its summary.
SweepRunStep ==
    \/ StartSweep
    \/ \E o \in Orgs : SweepOrg(o)
    \/ FinishSweep
    \/ ReturnSweep

FairSweeperSpec == SweeperSpec /\ WF_vars(SweepRunStep)

(***************************************************************************)
(* Both processors at work on the one store, each with its own session,    *)
(* their runs interleaved in any way.  Organization o1 has a retention     *)
(* policy and an expiration period shorter than its inactivity threshold.  *)
(***************************************************************************)
InitJoint ==
    /\ now = 0
    /\ batch_size = 2
    /\ org = [o \in Orgs |->
               IF o = "o1" THEN Policy(Some(2), Some(1))
               ELSE Policy(Some(1), None)]
    /\ member = [m \in Members |->
                   [retention_status |-> NullStatus,
                    retention_pending_since |-> None]]
    /\ meta = << >>
    /\ saas = << >>
    /\ audit = EmptyBag
    /\ sess = EmptySession
    /\ pc = "idle"
    /\ todo = {}
    /\ cur = "none"
    /\ batch = << >>
    /\ fails = {}
    /\ marked = 0
    /\ deleted = 0
    /\ recovered = 0
    /\ total_marked = 0
    /\ total_deleted = 0
    /\ total_recovered = 0
    /\ orgs_processed = 0
    /\ errors = << >>
    /\ result = [status |-> "none"]
    /\ ticks = 0
    /\ activity = 0
    /\ failures = 0
    /\ transitions = [m \in Members |-> 0]
    /\ conversation_expiration =
          [o \in Orgs |-> IF o = "o1" THEN Some(1) ELSE Some(2)]
    /\ ce_batch_size = 1
    /\ SweeperIdle
    /\ ComponentsIdle

NextJoint ==
    \/ Next
    \/ StartSweep
    \/ \E o \in Orgs : SweepOrg(o)
    \/ FinishSweep
    \/ ReturnSweep

JointSpec == InitJoint /\ [][NextJoint]_vars

\* The processor started on a store that already holds a conversation of
\* one of the members.
InitWithConversation ==
    /\ now = 0
    /\ \E cfg \in Configurations :
         /\ batch_size = cfg.batch_size
         /\ org = [o \in Orgs |->
                    IF o = "o1" THEN Policy(Some(2), Some(1)) ELSE cfg.o2]
    /\ member = [m \in Members |->
                   [retention_status |-> NullStatus,
                    retention_pending_since |-> None]]
    /\ \E m \in Members :
         /\ meta = Put(<< >>, ConvIds[1], 0)
         /\ saas = Put(<< >>, ConvIds[1], [user_id |-> m[2], org_id |-> m[1]])
    /\ audit = EmptyBag
    /\ sess = EmptySession
    /\ pc = "idle"
    /\ todo = {}
    /\ cur = "none"
    /\ batch = << >>
    /\ fails = {}
    /\ marked = 0
    /\ deleted = 0
    /\ recovered = 0
    /\ total_marked = 0
    /\ total_deleted = 0
    /\ total_recovered = 0
    /\ orgs_processed = 0
    /\ errors = << >>
    /\ result = [status |-> "none"]
    /\ ticks = 0
    /\ activity = 0
    /\ failures = 0
    /\ transitions = [m \in Members |-> 0]
    /\ conversation_expiration = [o \in Orgs |-> None]
    /\ ce_batch_size = 1
    /\ SweeperIdle
    /\ ComponentsIdle

SpecWithConversation == InitWithConversation /\ [][Next]_vars

\* The scheduler keeps invoking the processor, and a run that has started
\* goes on to its end.
RunStep ==
    \/ StartRun
    \/ \E o \in Orgs : Mark(o)
    \/ Delete
    \/ Recover
    \/ OrgProcessed
    \/ Finish
    \/ Return
    \/ Restart

FairSpec == Spec /\ WF_vars(RunStep)

(***************************************************************************)
(* The components outside the batch processors run on their own: the       *)
(* tables and the processors stay as they are.                             *)
(***************************************************************************)
batch_processors ==
    <<now, org, member, meta, saas, audit, sess, batch_size, pc, locals,
      result, ticks, activity, failures, transitions, sweeper>>

beside_token_store == <<batch_processors, refresh_race, wait_tracker, jira>>
beside_wait_tracker == <<batch_processors, token_store, refresh_race, jira>>
beside_jira == <<batch_processors, token_store, refresh_race, wait_tracker>>
beside_refresh_race == <<batch_processors, wait_tracker, jira>>

BatchProcessorsIdle ==
    /\ now = 0
    /\ batch_size = 1
    /\ org = [o \in Orgs |-> Policy(None, None)]
    /\ member = [m \in Members |->
                   [retention_status |-> NullStatus,
                    retention_pending_since |-> None]]
    /\ meta = << >>
    /\ saas = << >>
    /\ audit = EmptyBag
    /\ sess = EmptySession
    /\ pc = "idle"
    /\ todo = {}
    /\ cur = "none"
    /\ batch = << >>
    /\ fails = {}
    /\ marked = 0
    /\ deleted = 0
    /\ recovered = 0
    /\ total_marked = 0
    /\ total_deleted = 0
    /\ total_recovered = 0
    /\ orgs_processed = 0
    /\ errors = << >>
    /\ result = [status |-> "none"]
    /\ ticks = 0
    /\ activity = 0
    /\ failures = 0
    /\ transitions = [m \in Members |-> 0]
    /\ conversation_expiration = [o \in Orgs |-> None]
    /\ ce_batch_size = 1
    /\ SweeperIdle

(***************************************************************************)
(* AuthTokenStore.load_tokens.                                             *)
(***************************************************************************)
InitTokens ==
    /\ BatchProcessorsIdle
    /\ MAX_CONCURRENT_RUNTIME_WAITS = DefaultMaxConcurrentRuntimeWaits
    /\ WaitTrackerIdle
    /\ JiraIdle
    /\ max_retries \in {1, 2, DefaultMaxRetries}
    /\ token_row \in {None, Some(TokenRow(0))}
    /\ TokenStoreIdle
    /\ RaceIdle

\* A caller invokes load_tokens.
LoadTokens ==
    /\ tk_pc = "idle"
    /\ tk_pc' = "loop"
    /\ UNCHANGED <<beside_token_store, max_retries, token_row, rotations,
                   attempt, seen_row, refresh_calls, refresh_error, sleeps, retry_reads,
                   tk_result>>

\* The head of the retry loop; when the iterations are used up, the race
\* error is raised.
LoopHead ==
    /\ tk_pc = "loop"
    /\ IF MoreAttempts
       THEN /\ attempt' = attempt + 1
            /\ tk_pc' = "locked_read"
            /\ UNCHANGED tk_result
       ELSE /\ tk_pc' = "raised"
            /\ tk_result' = [kind |-> "TokenRefreshRaceError"]
            /\ UNCHANGED attempt
    /\ UNCHANGED <<beside_token_store, max_retries, token_row, rotations,
                   seen_row, refresh_calls, refresh_error, sleeps, retry_reads>>

\* The row is read under the row lock; without a row, None is returned.
LockedRead ==
    /\ tk_pc = "locked_read"
    /\ seen_row' = token_row
    /\ IF token_row = None
       THEN /\ tk_pc' = "returned"
            /\ tk_result' = [kind |-> "None"]
       ELSE /\ tk_pc' = "refresh"
            /\ UNCHANGED tk_result
    /\ UNCHANGED <<beside_token_store, max_retries, token_row, rotations,
                   attempt, refresh_calls, refresh_error, sleeps, retry_reads>>

\* check_expiration_and_refresh, called with the lock held: no refresh is
\* needed, or the provider issues new tokens, which are stored, or the
\* provider refuses.  Only the race is kept for a retry; any other error
\* propagates.
Refresh ==
    /\ tk_pc = "refresh"
    /\ refresh_calls' = refresh_calls + 1
    /\ \/ /\ tk_pc' = "returned"
          /\ tk_result' = [kind |-> "tokens", tokens |-> Tokens(seen_row[1])]
          /\ refresh_error' = None
          /\ UNCHANGED <<token_row, rotations>>
       \/ /\ rotations < MaxRotations
          /\ rotations' = rotations + 1
          /\ refresh_error' = None
          /\ token_row' = Some(TokenRow(seen_row[1].version + 1))
          /\ tk_pc' = "returned"
          /\ tk_result' = [kind |-> "tokens",
                           tokens |-> Tokens(TokenRow(seen_row[1].version + 1))]
       \/ \E e \in UpstreamErrors :
            /\ refresh_error' = Some(e)
            /\ IF IsInvalidGrant(e)
               THEN /\ tk_pc' = "backoff"
                    /\ UNCHANGED tk_result
               ELSE /\ tk_pc' = "raised"
                    /\ tk_result' = [kind |-> "HTTPStatusError", error |-> e]
            /\ UNCHANGED <<token_row, rotations>>
    /\ UNCHANGED <<beside_token_store, max_retries, attempt, seen_row, sleeps,
                   retry_reads>>

\* asyncio.sleep(0.5)
Backoff ==
    /\ tk_pc = "backoff"
    /\ sleeps' = Append(sleeps, BackoffMs)
    /\ tk_pc' = "retry_read"
    /\ UNCHANGED <<beside_token_store, max_retries, token_row, rotations,
                   attempt, seen_row, refresh_calls, refresh_error, retry_reads, tk_result>>

\* The row is read again: tokens that another process has stored meanwhile
\* are returned; otherwise the loop goes on.
RetryRead ==
    /\ tk_pc = "retry_read"
    /\ retry_reads' = retry_reads + 1
    /\ LET updated == UpdatedTokens(token_row, seen_row)
       IN  IF updated # None
           THEN /\ tk_pc' = "returned"
                /\ tk_result' = [kind |-> "tokens",
                                 tokens |-> Tokens(updated[1])]
           ELSE /\ tk_pc' = "loop"
                /\ UNCHANGED tk_result
    /\ UNCHANGED <<beside_token_store, max_retries, token_row, rotations,
                   attempt, seen_row, refresh_calls, refresh_error, sleeps>>

\* Another process stores rotated tokens; it cannot while load_tokens holds
\* the row lock.
WriterRotates ==
    /\ tk_pc # "refresh"
    /\ token_row # None
    /\ rotations < MaxRotations
    /\ rotations' = rotations + 1
    /\ token_row' = Some(TokenRow(token_row[1].version + 1))
    /\ UNCHANGED <<beside_token_store, max_retries, tk_pc, attempt, seen_row,
                   refresh_calls, refresh_error, sleeps, retry_reads, tk_result>>

\* The caller has the outcome; the next call starts afresh.
TokensTaken ==
    /\ tk_pc \in {"returned", "raised"}
    /\ tk_pc' = "idle"
    /\ attempt' = 0
    /\ seen_row' = None
    /\ refresh_calls' = 0
    /\ refresh_error' = None
    /\ sleeps' = << >>
    /\ retry_reads' = 0
    /\ tk_result' = [kind |-> "none"]
    /\ UNCHANGED <<beside_token_store, max_retries, token_row, rotations>>

NextTokens ==
    \/ LoadTokens
    \/ LoopHead
    \/ LockedRead
    \/ Refresh
    \/ Backoff
    \/ RetryRead
    \/ WriterRotates
    \/ TokensTaken

TokenSpec == InitTokens /\ [][NextTokens]_vars

(***************************************************************************)
(* Two processes call load_tokens at the same time on one expired pair.    *)
(* Whether the transaction that holds the row lock also spans the call of  *)
(* the provider is left open: both arrangements are explored.              *)
(***************************************************************************)
single_caller ==
    <<rotations, tk_pc, attempt, seen_row, refresh_calls, refresh_error,
      sleeps, retry_reads, tk_result>>

InitRace ==
    /\ BatchProcessorsIdle
    /\ MAX_CONCURRENT_RUNTIME_WAITS = DefaultMaxConcurrentRuntimeWaits
    /\ WaitTrackerIdle
    /\ JiraIdle
    /\ max_retries \in {1, 2, DefaultMaxRetries}
    /\ token_row = Some(TokenRow(0))
    /\ rotations = 0
    /\ tk_pc = "idle"
    /\ attempt = 0
    /\ seen_row = None
    /\ refresh_calls = 0
    /\ refresh_error = None
    /\ sleeps = << >>
    /\ retry_reads = 0
    /\ tk_result = [kind |-> "none"]
    /\ lock_covers_refresh \in BOOLEAN
    /\ row_lock = 0
    /\ upstream_token = 0
    /\ rc_pc = [c \in Callers |-> "idle"]
    /\ rc_attempt = [c \in Callers |-> 0]
    /\ rc_seen = [c \in Callers |-> None]
    /\ rc_new = [c \in Callers |-> None]
    /\ rc_result = [c \in Callers |-> [kind |-> "none"]]

race_frame == <<beside_refresh_race, single_caller, max_retries, lock_covers_refresh>>

\* The process calls load_tokens.
RaceLoad(c) ==
    /\ rc_pc[c] = "idle"
    /\ rc_pc' = [rc_pc EXCEPT ![c] = "loop"]
    /\ UNCHANGED <<race_frame, token_row, row_lock, upstream_token,
                   rc_attempt, rc_seen, rc_new, rc_result>>

\* for attempt in range(max_retries); after the loop the race error.
RaceLoopHead(c) ==
    /\ rc_pc[c] = "loop"
    /\ IF rc_attempt[c] < max_retries
       THEN /\ rc_attempt' = [rc_attempt EXCEPT ![c] = @ + 1]
            /\ rc_pc' = [rc_pc EXCEPT ![c] = "locked_read"]
            /\ UNCHANGED rc_result
       ELSE /\ rc_pc' = [rc_pc EXCEPT ![c] = "raised"]
            /\ rc_result' = [rc_result EXCEPT
                                ![c] = [kind |-> "TokenRefreshRaceError"]]
            /\ UNCHANGED rc_attempt
    /\ UNCHANGED <<race_frame, token_row, row_lock, upstream_token, rc_seen,
                   rc_new>>

\* The read with_for_update waits for the row lock.  A pair that has not
\* expired is returned; for an expired one the provider is called, inside
\* the transaction or after it.
RaceLockedRead(c) ==
    /\ rc_pc[c] = "locked_read"
    /\ row_lock = 0
    /\ rc_seen' = [rc_seen EXCEPT ![c] = token_row]
    /\ IF Expired(token_row[1])
       THEN /\ rc_pc' = [rc_pc EXCEPT ![c] = "refresh"]
            /\ row_lock' = IF lock_covers_refresh THEN c ELSE 0
            /\ UNCHANGED rc_result
       ELSE /\ rc_pc' = [rc_pc EXCEPT ![c] = "returned"]
            /\ rc_result' = [rc_result EXCEPT
                                ![c] = [kind |-> "tokens",
                                        tokens |-> Tokens(token_row[1])]]
            /\ UNCHANGED row_lock
    /\ UNCHANGED <<race_frame, token_row, upstream_token, rc_attempt, rc_new>>

\* check_expiration_and_refresh: the provider rotates the pair for the
\* refresh token it accepts and answers invalid_grant for a used one; the
\* error ends the transaction.
RaceRefresh(c) ==
    /\ rc_pc[c] = "refresh"
    /\ IF UpstreamAccepts(rc_seen[c][1])
       THEN /\ upstream_token' = upstream_token + 1
            /\ rc_new' = [rc_new EXCEPT
                             ![c] = Some(TokenRow(rc_seen[c][1].version + 1))]
            /\ rc_pc' = [rc_pc EXCEPT ![c] = "store"]
            /\ UNCHANGED row_lock
       ELSE /\ rc_pc' = [rc_pc EXCEPT ![c] = "backoff"]
            /\ row_lock' = IF row_lock = c THEN 0 ELSE row_lock
            /\ UNCHANGED <<upstream_token, rc_new>>
    /\ UNCHANGED <<race_frame, token_row, rc_attempt, rc_seen, rc_result>>

\* The new pair is stored and committed, which frees the row, and returned.
RaceStore(c) ==
    /\ rc_pc[c] = "store"
    /\ token_row' = rc_new[c]
    /\ row_lock' = IF row_lock = c THEN 0 ELSE row_lock
    /\ rc_pc' = [rc_pc EXCEPT ![c] = "returned"]
    /\ rc_result' = [rc_result EXCEPT
                        ![c] = [kind |-> "tokens",
                                tokens |-> Tokens(rc_new[c][1])]]
    /\ UNCHANGED <<race_frame, upstream_token, rc_attempt, rc_seen, rc_new>>

\* asyncio.sleep(0.5)
RaceBackoff(c) ==
    /\ rc_pc[c] = "backoff"
    /\ rc_pc' = [rc_pc EXCEPT ![c] = "retry_read"]
    /\ UNCHANGED <<race_frame, token_row, row_lock, upstream_token,
                   rc_attempt, rc_seen, rc_new, rc_result>>

\* The read after the backoff: the other process's pair, when it is there,
\* is returned; otherwise the loop goes on.
RaceRetryRead(c) ==
    /\ rc_pc[c] = "retry_read"
    /\ LET updated == UpdatedTokens(token_row, rc_seen[c])
       IN  IF updated # None
           THEN /\ rc_pc' = [rc_pc EXCEPT ![c] = "returned"]
                /\ rc_result' = [rc_result EXCEPT
                                    ![c] = [kind |-> "tokens",
                                            tokens |-> Tokens(updated[1])]]
           ELSE /\ rc_pc' = [rc_pc EXCEPT ![c] = "loop"]
                /\ UNCHANGED rc_result
    /\ UNCHANGED <<race_frame, token_row, row_lock, upstream_token,
                   rc_attempt, rc_seen, rc_new>>

NextRace ==
    \/ \E c \in Callers : RaceLoad(c)
    \/ \E c \in Callers : RaceLoopHead(c)
    \/ \E c \in Callers : RaceLockedRead(c)
    \/ \E c \in Callers : RaceRefresh(c)
    \/ \E c \in Callers : RaceStore(c)
    \/ \E c \in Callers : RaceBackoff(c)
    \/ \E c \in Callers : RaceRetryRead(c)

\* Neither process stops in the middle of its call.
RaceSpec == InitRace /\ [][NextRace]_vars /\ WF_vars(NextRace)

(***************************************************************************)
(* track_runtime_wait, used by several coroutines of one event loop.       *)
(***************************************************************************)
InitWaitTracker ==
    /\ BatchProcessorsIdle
    /\ max_retries = DefaultMaxRetries
    /\ token_row = Some(TokenRow(0))
    /\ TokenStoreIdle
    /\ RaceIdle
    /\ MAX_CONCURRENT_RUNTIME_WAITS \in 1..MaxCeiling
    /\ WaitTrackerIdle
    /\ JiraIdle

\* 'async with track_runtime_wait()': the code up to the yield has no await,
\* so the check and the increment are one step of the event loop.
EnterWait(c) ==
    /\ wait_state[c] # "waiting"
    /\ RUNTIME_WAIT_TOTAL + RUNTIME_WAIT_COMPLETED["rejected"] < MaxEntries
    /\ IF AtCeiling(current_wait_count, MAX_CONCURRENT_RUNTIME_WAITS)
       THEN /\ wait_state' = [wait_state EXCEPT ![c] = "rejected"]
            /\ RUNTIME_WAIT_COMPLETED' =
                  [RUNTIME_WAIT_COMPLETED EXCEPT !["rejected"] = @ + 1]
            /\ UNCHANGED <<current_wait_count, RUNTIME_WAIT_TOTAL>>
       ELSE /\ current_wait_count' = current_wait_count + 1
            /\ RUNTIME_WAIT_TOTAL' = RUNTIME_WAIT_TOTAL + 1
            /\ wait_state' = [wait_state EXCEPT ![c] = "waiting"]
            /\ UNCHANGED RUNTIME_WAIT_COMPLETED
    /\ UNCHANGED <<beside_wait_tracker, MAX_CONCURRENT_RUNTIME_WAITS>>

\* The body of the block ends; the finally clause takes the coroutine out
\* of the count however it ended.
ExitWait(c) ==
    /\ wait_state[c] = "waiting"
    /\ \E ending \in WaitEndings :
         /\ wait_state' = [wait_state EXCEPT ![c] = ending]
         /\ RUNTIME_WAIT_COMPLETED' =
               CompletedAfterExit(RUNTIME_WAIT_COMPLETED, ending)
         /\ current_wait_count' = CountAfterExit(current_wait_count, ending)
    /\ UNCHANGED <<beside_wait_tracker, MAX_CONCURRENT_RUNTIME_WAITS,
                   RUNTIME_WAIT_TOTAL>>

NextWaitTracker ==
    \/ \E c \in Coroutines : EnterWait(c)
    \/ \E c \in Coroutines : ExitWait(c)

WaitTrackerSpec == InitWaitTracker /\ [][NextWaitTracker]_vars

(***************************************************************************)
(* JiraPayloadParser.parse, given any of the payloads above.               *)
(***************************************************************************)
InitJira ==
    /\ BatchProcessorsIdle
    /\ max_retries = DefaultMaxRetries
    /\ token_row = Some(TokenRow(0))
    /\ TokenStoreIdle
    /\ RaceIdle
    /\ MAX_CONCURRENT_RUNTIME_WAITS = DefaultMaxConcurrentRuntimeWaits
    /\ WaitTrackerIdle
    /\ raw_payload \in RawPayloads
    /\ parse_result = [kind |-> "none"]

ParsePayload ==
    /\ parse_result.kind = "none"
    /\ parse_result' = parse(raw_payload)
    /\ UNCHANGED <<beside_jira, raw_payload>>

NextJira == ParsePayload

JiraSpec == InitJira /\ [][NextJira]_vars
(***************************************************************************)
(* Properties.                                                             *)
(***************************************************************************)
\* The committed conversations of a member: the ids whose SaaS row names the
\* member's user and organization.
MemberConversations(m) ==
    {c \in DOMAIN saas : saas[c] = [user_id |-> m[2], org_id |-> m[1]]}

\* The rows of the bag of audit rows `a` that are about member m.
AuditFor(a, m) ==
    LET rs == {r \in BagToSet(a) : r.user_id = m[2] /\ r.org_id = m[1]}
    IN  [r \in rs |-> a[r]]

\* The step removes a committed conversation row of member m.
LosesConversation(m) ==
    \E c \in MemberConversations(m) :
        c \notin DOMAIN saas' \/ (c \in DOMAIN meta /\ c \notin DOMAIN meta')

\* Member m has been retention_pending for longer than its organization's
\* grace period: retention_pending_since < now - grace days, the grace
\* period being the default when the column is NULL or 0.
PastGrace(m) ==
    LET g == org[m[1]].inactive_user_grace_period_days
        grace_days == IF g = None \/ g[1] = 0 THEN DEFAULT_GRACE_PERIOD_DAYS
                      ELSE g[1]
    IN  /\ member[m].retention_status = Pending
        /\ member[m].retention_pending_since # None
        /\ member[m].retention_pending_since[1] < now - grace_days

\* C1: in every reachable state a member's retention_pending_since is
\* non-null if and only if its retention_status is 'retention_pending',
\* also after a deletion and after a recovery.
C1_PendingSinceIffPending ==
    \A m \in DOMAIN member :
        (member[m].retention_pending_since # None)
            <=> (member[m].retention_status = Pending)

\* C2: retention_deleted is terminal.  No step changes the row of a member
\* whose status is 'retention_deleted', removes the row, writes an audit row
\* about the member or leaves a change of it pending in the session,
\* whatever conversations the user has created since.
C2_DeletedIsTerminal ==
    [][\A m \in DOMAIN member :
          member[m].retention_status = Deleted =>
              /\ m \in DOMAIN member'
              /\ member'[m] = member[m]
              /\ m \notin DOMAIN sess'.member
              /\ AuditFor(audit', m) = AuditFor(audit, m)
              /\ AuditFor(sess'.audit, m) = << >>]_vars

\* C2 witness: all three phases of a run have processed the organization of
\* a deleted member who has a conversation again.
C2_Witness ==
    /\ pc = "processed"
    /\ \E m \in DOMAIN member :
          /\ m[1] = cur
          /\ member[m].retention_status = Deleted
          /\ MemberConversations(m) # {}

\* C3: the delete phase never deletes data before the grace period has
\* elapsed.  A step moves a member to 'retention_deleted' or removes one of
\* its conversations only if the member was 'retention_pending' with
\* retention_pending_since strictly older than now minus the grace period,
\* and the delete phase of an organization leaves a pending member of it
\* that is not past the grace period with its row and all its conversations.
C3_NoDeleteBeforeGrace ==
    [][\A m \in DOMAIN member :
          /\ (\/ (member[m].retention_status # Deleted
                    /\ member'[m].retention_status = Deleted)
              \/ LosesConversation(m))
                => PastGrace(m)
          /\ (pc = "delete" /\ m[1] = cur
                /\ member[m].retention_status = Pending /\ ~PastGrace(m))
                => (member'[m] = member[m] /\ ~LosesConversation(m))]_vars

\* C3 witness: the delete phase has run over an organization with a member
\* that has been pending for exactly the grace period and has a conversation.
C3_Witness ==
    /\ pc = "recover"
    /\ \E m \in DOMAIN member :
          /\ m[1] = cur
          /\ member[m].retention_status = Pending
          /\ member[m].retention_pending_since = Some(now - GraceDays(cur))
          /\ MemberConversations(m) # {}
\* The members of organization o that are past the grace period.
DueForDeletion(o) == {m \in DOMAIN member : m[1] = o /\ PastGrace(m)}

\* The step removes every committed conversation row of member m.
LosesAllConversations(m) ==
    \A c \in MemberConversations(m) :
        c \notin DOMAIN saas' /\ c \notin DOMAIN meta'

\* C4 as stated: a member that has been 'retention_pending' for longer than
\* the grace period is deleted by the next run.  Taken where the claim is
\* strongest: the delete phase of the member's organization is reached and
\* no deletion fails in it; then every such member is 'retention_deleted',
\* none of its conversation rows remains and the phase counts a deletion.
C4_DeletedOnNextRun ==
    [][(pc = "delete" /\ pc' = "recover" /\ fails' = {}) =>
          \A m \in DueForDeletion(cur) :
              /\ member'[m].retention_status = Deleted
              /\ LosesAllConversations(m)
              /\ deleted' >= 1]_vars

\* C4 amended: the delete phase selects min(batch_size, number due) of the
\* members past the grace period.  A selected member ends the phase
\* 'retention_deleted' with none of its conversation rows left and counted
\* in the phase's result, unless its deletion or the deletion of a member
\* after it in the batch fails, in which case its row and conversations are
\* as before.  The phase's result is added to the run's total when the
\* organization completes, and the total is returned as users_data_deleted.
C4_DeletedWhenSelected ==
    [][/\ (pc = "delete" /\ pc' = "recover") =>
            /\ ToSet(batch') \subseteq DueForDeletion(cur)
            /\ Len(batch') = Min(batch_size, Cardinality(DueForDeletion(cur)))
            /\ \A i \in 1..Len(batch') :
                  IF \E j \in i..Len(batch') : batch'[j] \in fails'
                  THEN /\ member'[batch'[i]] = member[batch'[i]]
                       /\ ~LosesConversation(batch'[i])
                  ELSE /\ member'[batch'[i]].retention_status = Deleted
                       /\ LosesAllConversations(batch'[i])
            /\ deleted' >= Cardinality({m \in ToSet(batch') :
                                member'[m].retention_status = Deleted})
       /\ (pc = "processed" /\ pc' = "next") =>
            total_deleted' = total_deleted + deleted
       /\ (pc = "next" /\ pc' = "done") =>
            result'.users_data_deleted = total_deleted]_vars

\* C4 witness: the delete phase has deleted a selected member together with
\* at least one conversation.
C4_Witness ==
    /\ pc = "recover"
    /\ deleted >= 1
    /\ \E m \in ToSet(batch) \ fails :
          /\ member[m].retention_status = Deleted
          /\ MemberConversations(m) = {}
          /\ \E r \in BagToSet(audit) :
                /\ r.user_id = m[2] /\ r.org_id = m[1] /\ r.action = "deleted"
                /\ r.data_scope # None /\ r.data_scope[1] >= 1

AuditCount(a, m, action) ==
    LET rs == {r \in BagToSet(a) :
                  r.user_id = m[2] /\ r.org_id = m[1] /\ r.action = action}
    IN  BagCardinality([r \in rs |-> a[r]])

\* The step persists the transition that the audit action names.
Transition(m, action) ==
    CASE action = "marked" ->
            /\ member[m].retention_status \in {NullStatus, Active}
            /\ member'[m].retention_status = Pending
      [] action = "deleted" ->
            /\ member[m].retention_status = Pending
            /\ member'[m].retention_status = Deleted
      [] action = "recovered" ->
            /\ member[m].retention_status = Pending
            /\ member'[m].retention_status = Active

AuditActions == {"marked", "deleted", "recovered"}

\* C6: every step that persists a mark, delete or recover transition of a
\* member persists exactly one audit row about that member with the matching
\* action, no audit row is persisted without its transition, no status
\* changes in another way, and every persisted row is triggered by 'policy'.
C6_OneAuditRowPerTransition ==
    [][/\ \A m \in DOMAIN member :
            /\ \A action \in AuditActions :
                  AuditCount(audit', m, action) =
                      AuditCount(audit, m, action)
                        + (IF Transition(m, action) THEN 1 ELSE 0)
            /\ member'[m].retention_status # member[m].retention_status =>
                  \E action \in AuditActions : Transition(m, action)
       /\ \A r \in BagToSet(audit') :
            /\ r.triggered_by = "policy"
            /\ r.action \in AuditActions
            /\ <<r.org_id, r.user_id>> \in DOMAIN member]_vars

\* C6 witness: a mark, a deletion and a recovery have been persisted.
C6_Witness ==
    /\ \E m \in DOMAIN member :
          member[m].retention_status = Deleted /\ AuditCount(audit, m, "deleted") = 1
    /\ \E m \in DOMAIN member :
          member[m].retention_status = Active /\ AuditCount(audit, m, "recovered") = 1
    /\ \E m \in DOMAIN member :
          member[m].retention_status = Pending /\ AuditCount(audit, m, "marked") = 1
\* Organization o has no retention policy: inactive_user_retention_days is
\* NULL or 0.
NoPolicy(o) ==
    \/ org[o].inactive_user_retention_days = None
    \/ org[o].inactive_user_retention_days[1] = 0

\* C7: a run touches nothing of an organization with no retention policy.
\* No step takes such an organization up for processing, changes the
\* retention columns of one of its members, removes a conversation of one of
\* them or writes an audit row for the organization, in the tables or in the
\* session, and a finished run counts at most the organizations that have a
\* policy in orgs_processed.
C7_NoPolicyUntouched ==
    [][/\ \A o \in Orgs : NoPolicy(o) =>
            /\ o \notin todo'
            /\ cur' # o
            /\ \A m \in DOMAIN member : m[1] = o =>
                  /\ member'[m] = member[m]
                  /\ m \notin DOMAIN sess'.member
                  /\ ~LosesConversation(m)
            /\ \A r \in BagToSet(audit') \cup BagToSet(sess'.audit) :
                  r.org_id # o
       /\ (pc = "next" /\ pc' = "done") =>
            result'.orgs_processed
                <= Cardinality({o \in Orgs : ~NoPolicy(o)})]_vars

\* C7 witness: a run has completed and has marked members elsewhere, while a
\* never-active member of an organization whose inactive_user_retention_days
\* is 0 still has its retention columns NULL.
C7_Witness ==
    /\ pc = "done"
    /\ result.status = "completed"
    /\ result.orgs_processed = 1
    /\ result.users_marked_for_retention >= 1
    /\ \E m \in DOMAIN member :
          /\ org[m[1]].inactive_user_retention_days = Some(0)
          /\ MemberConversations(m) = {}
          /\ member[m] = [retention_status |-> NullStatus,
                          retention_pending_since |-> None]

\* The members of organization o with status NULL or 'active'.
Unmarked(o) ==
    {m \in DOMAIN member :
        m[1] = o /\ member[m].retention_status \in {NullStatus, Active}}

\* The row of a member marked in this step.
MarkedNow == [retention_status |-> Pending, retention_pending_since |-> Some(now)]

\* C8 as stated: a member with status NULL or 'active' and no recorded
\* conversation activity is always marked by the next run.  Taken where the
\* claim is strongest: the mark phase of the member's organization completes
\* without an exception; then every such member is 'retention_pending' with
\* retention_pending_since set.
C8_NeverActiveAlwaysMarked ==
    [][(pc = "next" /\ pc' = "delete") =>
          \A m \in Unmarked(cur') :
              get_user_last_activity(sess, m[2], m[1]) = None =>
                  member'[m] = MarkedNow]_vars

\* C8 amended: the mark phase selects min(batch_size, number of members with
\* status NULL or 'active') of those members; when the phase completes
\* without an exception, every selected member with no recorded conversation
\* activity is persisted as 'retention_pending' with retention_pending_since
\* = now and counted, however recent the membership.
C8_NeverActiveMarkedWhenSelected ==
    [][(pc = "next" /\ pc' = "delete") =>
          /\ ToSet(batch') \subseteq Unmarked(cur')
          /\ Len(batch') = Min(batch_size, Cardinality(Unmarked(cur')))
          /\ \A m \in ToSet(batch') :
                get_user_last_activity(sess, m[2], m[1]) = None =>
                    (member'[m] = MarkedNow /\ marked' >= 1)]_vars

\* C8 witness: on the day the memberships were created, the mark phase has
\* marked the never-active member it selected and has left a never-active
\* member outside its batch unmarked.
C8_Witness ==
    /\ pc = "delete"
    /\ now = 0
    /\ marked >= 1
    /\ \E m \in ToSet(batch) :
          member[m] = MarkedNow /\ MemberConversations(m) = {}
    /\ \E m \in Unmarked(cur) :
          m \notin ToSet(batch) /\ MemberConversations(m) = {}

\* A step of the mark phase of an organization (completed or raising).
MarkPhaseStep == pc = "next" /\ todo' # todo

\* The only organization the step takes from todo.
MarkedOrg == CHOOSE o \in todo : o \notin todo'

\* C9: the mark phase marks a member only if, as the session sees it at that
\* time, the member's latest conversation activity in the organization is
\* older than now minus the organization's inactivity days or there is none;
\* a member with status NULL or 'active' that has a conversation updated
\* within the threshold keeps its row, and no audit row about it is added.
C9_MarkedOnlyIfInactive ==
    [][MarkPhaseStep =>
          \A m \in DOMAIN member :
              LET last_activity == get_user_last_activity(sess, m[2], m[1])
                  within == /\ last_activity # None
                            /\ last_activity[1] >=
                                 now - org[m[1]].inactive_user_retention_days[1]
                  before == IF m \in DOMAIN sess.member THEN sess.member[m]
                            ELSE member[m]
                  after == IF m \in DOMAIN sess'.member THEN sess'.member[m]
                           ELSE member'[m]
              IN  (m[1] = MarkedOrg
                    /\ before.retention_status \in {NullStatus, Active}) =>
                    /\ after.retention_status = Pending => ~within
                    /\ within =>
                          /\ after = before
                          /\ member'[m] = member[m]
                          /\ AuditFor(audit' (+) sess'.audit, m)
                               = AuditFor(audit (+) sess.audit, m)]_vars

\* C9 witness: the mark phase has selected a member whose last activity is
\* exactly at the threshold, and has left it unmarked.
C9_Witness ==
    /\ pc = "delete"
    /\ \E m \in ToSet(batch) :
          /\ member[m].retention_status = NullStatus
          /\ get_user_last_activity(sess, m[2], m[1])
               = Some(now - InactivityDays(cur))

PastDefaultGrace(o) ==
    {m \in DOMAIN member :
        /\ m[1] = o
        /\ member[m].retention_status = Pending
        /\ member[m].retention_pending_since # None
        /\ member[m].retention_pending_since[1]
             < now - DEFAULT_GRACE_PERIOD_DAYS}

DeletionAudited(m) ==
    AuditCount(audit', m, "deleted") = AuditCount(audit, m, "deleted") + 1

\* C11: a per-user failure in the delete phase rolls back only that user's
\* partial changes.  Every member of the batch whose deletion did not fail,
\* before or after a failing one, ends the phase persisted as
\* 'retention_deleted' with its conversations removed and its 'deleted'
\* audit row written; every failing member stays as it was, with its
\* conversations.
C11_FailureSparesOthers ==
    [][(pc = "delete" /\ pc' = "recover") =>
          /\ \A m \in ToSet(batch') \ fails' :
                /\ member'[m].retention_status = Deleted
                /\ LosesAllConversations(m)
                /\ DeletionAudited(m)
          /\ \A m \in fails' :
                /\ member'[m] = member[m]
                /\ ~LosesConversation(m)]_vars
\* The organizations a run has to process.
EnabledOrgs == {o \in Orgs : ~NoPolicy(o)}

\* C12: an exception raised while processing an organization is caught and
\* recorded in errors, and the run goes on with the organizations left: the
\* step that records the error takes only that organization out of the run
\* and leaves the run at the head of its loop, and when the run returns
\* every enabled organization was either processed or recorded in errors.
\* The summary's status is 'completed' exactly when every enabled
\* organization was processed, 'completed_with_errors' otherwise, and its
\* errors are the recorded ones (null when there are none).
C12_OrgFailureIsolated ==
    [][/\ Len(errors') > Len(errors) =>
            \E o \in EnabledOrgs :
                /\ o \in todo \/ o = cur
                /\ errors' = Append(errors, o)
                /\ todo' = todo \ {o}
                /\ pc' = "next"
       /\ (pc = "next" /\ pc' = "done") =>
            /\ orgs_processed + Len(errors) = Cardinality(EnabledOrgs)
            /\ result'.status \in {"completed", "completed_with_errors"}
            /\ result'.status = "completed"
                 <=> orgs_processed = Cardinality(EnabledOrgs)
            /\ result'.errors = (IF errors = << >> THEN None ELSE errors)
            /\ result'.orgs_processed = orgs_processed]_vars

\* C12 witness: an organization has gone through its three phases after the
\* processing of another organization of the same run raised.
C12_Witness ==
    /\ pc = "processed"
    /\ Len(errors) = 1
    /\ cur # errors[1]
\* C13: a run-level failure aborts the whole run.  The step that fails to
\* open the session or to query the organizations returns a summary with
\* status 'error' and zero counts, changes nothing in the tables and leaves
\* no organization to process; while that summary stands no organization is
\* taken up and nothing is changed.
C13_RunFailureAborts ==
    [][/\ (result'.status = "error" /\ result.status # "error") =>
            /\ pc = "idle" /\ pc' = "done"
            /\ todo' = {} /\ cur' = "none"
            /\ UNCHANGED <<member, meta, saas, audit, sess>>
            /\ result'.orgs_processed = 0
            /\ result'.users_marked_for_retention = 0
            /\ result'.users_data_deleted = 0
       /\ result.status = "error" =>
            /\ pc = "done" /\ pc' \in {"done", "idle"}
            /\ todo' = {} /\ cur' = "none"
            /\ orgs_processed' = 0
            /\ UNCHANGED <<member, meta, saas, audit, sess>>]_vars

\* C13 witness: a run has ended with status 'error' while an enabled
\* organization has a never-active member that a run would have marked, and
\* earlier runs had done their work.
C13_Witness ==
    /\ pc = "done"
    /\ result.status = "error"
    /\ audit # EmptyBag
    /\ \E m \in DOMAIN member :
          /\ m[1] \in EnabledOrgs
          /\ member[m].retention_status = NullStatus
          /\ MemberConversations(m) = {}

\* C14: within one invocation each enabled organization is processed exactly
\* once, and its phases run in the order mark, delete, recover, each on the
\* state the previous one left.  The run starts with every enabled
\* organization to do; the mark phase takes one of them out for good (none
\* ever comes back during the run); the delete phase is the only step of the
\* processor after the mark phase, and the recover phase the only one after
\* the delete phase, for the same organization and with nothing changing the
\* member or audit rows in between; the run returns only when none is left.
C14_PhasesInOrder ==
    [][/\ (pc = "idle" /\ pc' = "next") => todo' = EnabledOrgs
       /\ (pc = "next" /\ pc' = "delete") =>
             /\ cur' \in todo
             /\ todo' = todo \ {cur'}
       /\ pc = "next" => pc' \in {"next", "delete", "done", "crashed"}
       /\ pc = "delete" =>
             /\ pc' \in {"recover", "next", "crashed"}
             /\ pc' = "recover" => cur' = cur
       /\ pc = "recover" =>
             /\ pc' \in {"recover", "processed", "next", "crashed"}
             /\ pc' \in {"recover", "processed"} => cur' = cur
             /\ pc' = "recover" => UNCHANGED <<member, audit, sess>>
       /\ pc = "processed" =>
             /\ pc' \in {"next", "crashed"}
             /\ pc' = "next" => orgs_processed' = orgs_processed + 1
       /\ pc \in {"next", "delete", "recover", "processed"} =>
             /\ todo' \subseteq todo
             /\ cur \notin todo
       /\ (pc = "next" /\ pc' = "done") => todo = {}]_vars

\* C14 witness: in a run that has already processed one organization, another
\* has gone through its three phases, the first two of which changed rows.
C14_Witness ==
    /\ pc = "processed"
    /\ orgs_processed = 1
    /\ marked > 0
    /\ deleted > 0

\* C15: the batch size caps each phase on its own: no step persists, for one
\* organization, more than batch_size transitions of one kind (marked,
\* deleted or recovered), and none of the three counts that a phase reports
\* for the organization exceeds batch_size.
C15_BatchSizeCapsEachPhase ==
    [][/\ \A o \in Orgs : \A action \in AuditActions :
             Cardinality({m \in DOMAIN member :
                            m[1] = o /\ Transition(m, action)}) <= batch_size
       /\ marked' <= batch_size
       /\ deleted' <= batch_size
       /\ recovered' <= batch_size]_vars

\* C15 witness: the mark phase has marked a full batch and had to leave a
\* never-active member of the organization unmarked.
C15_Witness ==
    /\ pc = "delete"
    /\ marked = batch_size
    /\ \E m \in DOMAIN member :
          /\ m[1] = cur
          /\ member[m].retention_status = NullStatus
          /\ MemberConversations(m) = {}

\* No organization has more members than a batch takes.
NoBatchCut ==
    \A o \in Orgs : Cardinality({m \in DOMAIN member : m[1] = o}) <= batch_size

C17_CrashLeavesOrgWholeOrUntouched ==
    [][(pc = "delete" /\ pc' = "crashed" /\ marked > 0) =>
          DueForDeletion(cur) = {}]_vars

\* C18: the persisted audit log is append-only: no step, in any run and
\* whatever fails, removes or changes a persisted audit row; every row stays
\* with at least the number of copies it had.
C18_AuditAppendOnly ==
    [][\A r \in BagToSet(audit) :
          /\ r \in BagToSet(audit')
          /\ CopiesIn(r, audit') >= CopiesIn(r, audit)]_vars

\* C18 witness: rows were persisted before a member's deletion failed and
\* was rolled back.
C18_Witness ==
    /\ pc = "recover"
    /\ fails # {}
    /\ BagCardinality(audit) >= 2

\* C19: the conversation expiration processor deletes a conversation only if
\* its organization has conversation_expiration > 0 and its last_updated_at
\* precedes now minus that many days: whenever a step removes a row of a
\* conversation, the conversation had both rows and met these conditions.
\* So a conversation updated within the window, and any conversation of an
\* organization whose conversation_expiration is null or 0, keeps its rows.
C19_SweepsOnlyExpired ==
    [][\A c \in DOMAIN meta \cup DOMAIN saas :
          (c \notin DOMAIN meta' \/ c \notin DOMAIN saas') =>
             /\ c \in DOMAIN meta
             /\ c \in DOMAIN saas
             /\ conversation_expiration[saas[c].org_id] # None
             /\ conversation_expiration[saas[c].org_id][1] > 0
             /\ meta[c] < now - conversation_expiration[saas[c].org_id][1]]_vars

\* C19 witness: a run has deleted the expired conversation of o1 and has left
\* a conversation of an organization with no expiration (null or 0) that was
\* last updated before today.
C19_Witness ==
    /\ ce_pc = "done"
    /\ ce_result.status = "completed"
    /\ ce_result.conversations_deleted = 1
    /\ ConvIds[1] \notin DOMAIN meta
    /\ \E c \in DOMAIN meta \cap DOMAIN saas :
          /\ meta[c] < now
          /\ \/ conversation_expiration[saas[c].org_id] = None
             \/ conversation_expiration[saas[c].org_id] = Some(0)

\* C20: the processor deletes the two rows of a conversation together: in
\* every state, so after any run and whichever deletions failed, the
\* conversations with a persisted metadata row are those with a persisted
\* org-scoped record.
C20_BothRowsOrNeither == DOMAIN meta = DOMAIN saas

\* C20 witness: of the two conversations of a batch, the deletion of one
\* failed and the other was deleted.
C20_Witness ==
    /\ ce_pc = "next"
    /\ Len(ce_batch) = 2
    /\ ce_fails # {}
    /\ ce_deleted_count = 1
    /\ Cardinality(DOMAIN meta) = 1
    /\ DOMAIN meta = ce_fails

\* C21: after max_retries consecutive 'invalid_grant' failures with no
\* updated tokens on the reads after the backoffs, load_tokens raises
\* TokenRefreshRaceError, having called the refresh max_retries times and
\* slept 0.5 s max_retries times; it never goes beyond max_retries: when the
\* read after the last allowed backoff finds nothing, the next thing
\* load_tokens does is raise, and at no point has it refreshed, slept or
\* re-read more often than max_retries.
C21_RaisesAfterMaxRetries ==
    [][/\ (tk_result'.kind = "TokenRefreshRaceError"
              /\ tk_result.kind # "TokenRefreshRaceError") =>
             /\ attempt = max_retries
             /\ refresh_calls = max_retries
             /\ sleeps = [i \in 1..max_retries |-> BackoffMs]
             /\ retry_reads = max_retries
             /\ UNCHANGED <<attempt, refresh_calls, sleeps, retry_reads>>
       /\ (tk_pc = "loop" /\ attempt = max_retries /\ tk_pc' # tk_pc) =>
             tk_result'.kind = "TokenRefreshRaceError"
       /\ attempt' <= max_retries
       /\ refresh_calls' <= max_retries
       /\ Len(sleeps') <= max_retries
       /\ retry_reads' <= max_retries]_vars

\* C21 witness: the race error was raised after three failed attempts.
C21_Witness ==
    /\ tk_pc = "raised"
    /\ tk_result.kind = "TokenRefreshRaceError"
    /\ max_retries = DefaultMaxRetries
    /\ refresh_calls = DefaultMaxRetries

\* C22: when the read after a backoff, the first or a later one, finds tokens
\* that another process has stored since the locked read, load_tokens returns
\* exactly those tokens (access token, refresh token and both expiry times)
\* instead of raising, and after that read it neither refreshes nor backs
\* off again.
C22_ReturnsConcurrentWritersTokens ==
    [][/\ (tk_pc = "retry_read" /\ tk_pc' # tk_pc
              /\ token_row # None /\ token_row # seen_row) =>
             /\ tk_pc' = "returned"
             /\ tk_result'.kind = "tokens"
             /\ tk_result'.tokens.access_token = token_row[1].access_token
             /\ tk_result'.tokens.refresh_token = token_row[1].refresh_token
             /\ tk_result'.tokens.access_token_expires_at =
                    token_row[1].access_token_expires_at
             /\ tk_result'.tokens.refresh_token_expires_at =
                    token_row[1].refresh_token_expires_at
             /\ UNCHANGED <<refresh_calls, sleeps>>
       /\ tk_pc = "returned" => tk_pc' \in {"returned", "idle"}]_vars

\* C22 witness: the second re-read found the rotated tokens and they were
\* returned.
C22_Witness ==
    /\ tk_pc = "returned"
    /\ refresh_calls = 2
    /\ retry_reads = 2
    /\ Len(sleeps) = 2
    /\ token_row # seen_row
    /\ tk_result.kind = "tokens"
    /\ tk_result.tokens = Tokens(token_row[1])

\* C23: a refresh error other than 'invalid_grant' is not retried: the
\* refresh call that raised it is the last thing load_tokens does before the
\* error reaches the caller, with no backoff and no re-read after it; when
\* it is the first refresh of the call, load_tokens has refreshed once and
\* has neither slept nor re-read.
C23_OtherErrorsPropagate ==
    [][/\ (tk_pc = "refresh" /\ tk_pc' # tk_pc /\ refresh_error' # None
              /\ refresh_error'[1].error # "invalid_grant") =>
             /\ tk_pc' = "raised"
             /\ tk_result' = [kind |-> "HTTPStatusError",
                              error |-> refresh_error'[1]]
             /\ UNCHANGED <<sleeps, retry_reads, token_row>>
             /\ attempt = 1 =>
                  /\ refresh_calls' = 1
                  /\ sleeps' = << >>
                  /\ retry_reads' = 0
       /\ tk_pc = "raised" => tk_pc' \in {"raised", "idle"}]_vars

\* C23 witness: the first refresh failed with a server error, which reached
\* the caller.
C23_Witness ==
    /\ tk_pc = "raised"
    /\ tk_result.kind = "HTTPStatusError"
    /\ tk_result.error.status_code = 500
    /\ refresh_calls = 1
    /\ sleeps = << >>

\* C24: under any interleaving of the coroutines, at most
\* MAX_CONCURRENT_RUNTIME_WAITS of them are inside track_runtime_wait (and
\* the counter is their number); a coroutine that enters with the ceiling
\* reached gets TooManyWaitingError in that same step, without being counted
\* and without waiting for a place, and one that enters below the ceiling
\* gets in.
C24_WaitsBounded ==
    /\ [](/\ Cardinality({c \in Coroutines : wait_state[c] = "waiting"})
              = current_wait_count
          /\ current_wait_count <= MAX_CONCURRENT_RUNTIME_WAITS)
    /\ [][\A c \in Coroutines :
            (wait_state[c] # "waiting" /\ wait_state'[c] # wait_state[c]) =>
               IF current_wait_count >= MAX_CONCURRENT_RUNTIME_WAITS
               THEN /\ wait_state'[c] = "rejected"
                    /\ current_wait_count' = current_wait_count
               ELSE /\ wait_state'[c] = "waiting"
                    /\ current_wait_count' = current_wait_count + 1]_vars

\* C24 witness: two coroutines are inside, which is the ceiling, and the
\* third was rejected.
C24_Witness ==
    /\ MAX_CONCURRENT_RUNTIME_WAITS = 2
    /\ current_wait_count = 2
    /\ \E c \in Coroutines : wait_state[c] = "rejected"

\* C26: for every payload, parse returns one of three outcomes: a payload
\* whose issue id, issue key, user email, display name, account id,
\* workspace name and base API URL are all non-empty; a skip with a reason;
\* or an error naming the missing required fields.
C26_ParseAlwaysReturnsAnOutcome ==
    /\ parse_result.kind \in {"none", "ok", "skip", "fail"}
    /\ parse_result.kind = "ok" =>
         \A f \in {"issue_id", "issue_key", "user_email", "display_name",
                   "account_id", "workspace_name", "base_api_url"} :
            /\ parse_result.payload[f][1] = "str"
            /\ parse_result.payload[f][2] # << >>
    /\ parse_result.kind = "fail" => Len(parse_result.error) > 1
    /\ parse_result.kind = "skip" =>
         parse_result.skip_reason \in
            {"Unhandled webhook event type",
             "Label event does not contain the label",
             "Comment does not mention"}

\* C27: no phase of the retention processor removes a conversation of, or
\* persists as 'retention_deleted', a member that is 'retention_pending'
\* and whose latest conversation activity is, when the phase runs, within
\* its organization's inactivity threshold.
C27_RecentlyActiveNeverDeleted ==
    [][\A m \in DOMAIN member :
          LET last_activity == get_user_last_activity(sess, m[2], m[1])
          IN  (/\ pc \in {"mark", "delete", "recover"}
               /\ pc' # pc
               /\ member[m].retention_status = Pending
               /\ last_activity # None
               /\ last_activity[1] >= now - InactivityDays(m[1])) =>
                 /\ member'[m].retention_status # Deleted
                 /\ ~LosesConversation(m)]_vars

\* C28: the counts of the summary match what the run persisted.  Phase by
\* phase: the count a phase hands back for the summary's
\* users_marked_for_retention, users_data_deleted or users_recovered is the
\* number of members that the phase persisted as marked, deleted or
\* recovered, also when the deletion of a member of the batch fails.
C28_CountsMatchPersistedState ==
    [][/\ (pc = "next" /\ pc' = "delete") =>
             marked' = Cardinality({m \in DOMAIN member :
                                       Transition(m, "marked")})
       /\ (pc = "delete" /\ pc' = "recover") =>
             deleted' = Cardinality({m \in DOMAIN member :
                                        Transition(m, "deleted")})
       /\ (pc = "recover" /\ pc' = "processed") =>
             recovered' = Cardinality({m \in DOMAIN member :
                                          Transition(m, "recovered")})]_vars

\* Member m of an organization with a retention policy has status null or
\* 'active' and its latest conversation activity, if any, is older than the
\* organization's inactivity threshold.
InactiveUnmarked(m) ==
    LET last_activity == get_user_last_activity(EmptySession, m[2], m[1])
    IN  /\ m[1] \in OrgsWithRetention
        /\ member[m].retention_status \in {NullStatus, Active}
        /\ (last_activity = None
              \/ last_activity[1] < now - InactivityDays(m[1]))

\* C29: no starvation in the mark phase: under repeated runs no member
\* stays inactive beyond the threshold and unmarked for ever, also when its
\* organization has more than batch_size members with status null or
\* 'active' and the members the query returns first remain active.
C29_NoStarvationInMarkPhase ==
    \A m \in Members : []<>(~InactiveUnmarked(m))

\* C30: once the processing of an organization has raised part-way through
\* a phase, nothing of what it had changed without committing is persisted
\* later in the run: while the organization is among the run's errors, no
\* step changes a member row of it, removes a conversation of one of its
\* members or adds an audit row about one, in particular not the commit of
\* an organization processed after it.
C30_FailedOrgPersistsNothing ==
    [][\A m \in DOMAIN member :
          m[1] \in ToSet(errors) =>
             /\ member'[m] = member[m]
             /\ ~LosesConversation(m)
             /\ AuditFor(audit', m) = AuditFor(audit, m)]_vars

\* C31: with conversation records that do not change while a run is under
\* way, a run persists at most one retention transition of each member: a
\* member it marks is neither deleted nor recovered by it, so no member goes
\* from active to 'retention_deleted' within one run.
C31_OneTransitionPerRun ==
    \A m \in Members :
        /\ transitions[m] <= 1
        /\ (transitions[m] = 1
              /\ member[m].retention_pending_since = Some(now)) =>
             member[m].retention_status = Pending

\* C31 witness: the organization's three phases are over and a member that
\* the mark phase of this run marked is still 'retention_pending'.
C31_Witness ==
    /\ pc = "processed"
    /\ marked >= 1
    /\ \E m \in Members :
          /\ m[1] = cur
          /\ transitions[m] = 1
          /\ member[m].retention_status = Pending
          /\ member[m].retention_pending_since = Some(now)

\* C32: the retention processor removes conversation rows only in its
\* delete phase, and only rows of a (user, organization) pair that this
\* phase deletes: a row that a step removes belongs to a member of the
\* organization in hand whose deletion did not fail and who is persisted
\* as 'retention_deleted' by that step.  The mark and recover phases remove
\* nothing, and the conversations of other users, and of the same user in
\* another organization, stay.
C32_DeletesOnlyTheDeletedPair ==
    [][\A c \in DOMAIN saas :
          (c \notin DOMAIN saas' \/ (c \in DOMAIN meta /\ c \notin DOMAIN meta'))
            => /\ pc = "delete"
               /\ pc' = "recover"
               /\ saas[c].org_id = cur
               /\ <<saas[c].org_id, saas[c].user_id>> \in ToSet(batch') \ fails'
               /\ member[<<saas[c].org_id, saas[c].user_id>>].retention_status
                     = Pending
               /\ member'[<<saas[c].org_id, saas[c].user_id>>].retention_status
                     = Deleted]_vars

\* C32 witness: the delete phase has removed the conversation of the member
\* it deleted, and a conversation of somebody else is still there.
C32_Witness ==
    /\ pc = "recover"
    /\ deleted >= 1
    /\ \E m \in ToSet(batch) \ fails :
          /\ member[m].retention_status = Deleted
          /\ MemberConversations(m) = {}
          /\ \E c \in DOMAIN saas :
                /\ c \in DOMAIN meta
                /\ saas[c].user_id = m[2]
                /\ saas[c].org_id # m[1]

\* C33: the processors do not interfere through the store: no step of the
\* conversation expiration processor makes a member eligible for marking
\* that was not eligible before it, that is, a member with recent
\* conversation activity stays a member with recent activity when the
\* sweeper removes conversations.
C33_SweeperKeepsMembersActive ==
    [][\A m \in Members :
          (ce_pc = "next" /\ ~InactiveUnmarked(m)) => ~InactiveUnmarked(m)']_vars

\* C34: the count the sweeper reports for an organization is the number of
\* conversations the step removed from the store, and every conversation of
\* the batch whose deletion did not fail is removed, also when a later or
\* earlier conversation of the same batch failed.
C34_CountMatchesRemovedConversations ==
    [][(ce_pc = "next" /\ ce_todo' # ce_todo) =>
          /\ ce_deleted_count' = Cardinality(DOMAIN saas \ DOMAIN saas')
          /\ \A c \in ToSet(ce_batch') \ ce_fails' : c \notin DOMAIN saas']_vars

\* A stored conversation of an organization with expiration enabled that is
\* older than the threshold of its organization.
ExpiredNow(c) ==
    /\ c \in DOMAIN saas \cap DOMAIN meta
    /\ ExpirationEnabled(saas[c].org_id)
    /\ meta[c] < now - conversation_expiration[saas[c].org_id][1]

\* C35: under repeated runs of the sweeper, with finitely many deletion
\* failures, no conversation stays expired forever in an organization with
\* expiration enabled, also when more conversations than batch_size are
\* expired at once; and a run removes at most batch_size conversations of
\* an organization.
C35_ExpiredEventuallyDeleted ==
    /\ \A c \in Convs : []<>(~ExpiredNow(c))
    /\ [][Cardinality(DOMAIN saas \ DOMAIN saas') <= ce_batch_size]_vars

\* C35 witness: a run with batch_size 1 has deleted one of two expired
\* conversations of the organization and has left the other for a later run.
C35_Witness ==
    /\ ce_pc = "next"
    /\ ce_batch_size = 1
    /\ ce_deleted_count = 1
    /\ ce_fails = {}
    /\ \E c \in Convs : ExpiredNow(c) /\ saas[c].org_id = ce_cur
    /\ \E c \in ToSet(ce_batch) : c \notin DOMAIN saas

\* C36: the internal counter is the number of coroutines inside the body of
\* track_runtime_wait: it is never negative and is 0 when no coroutine is
\* inside; an admission adds exactly one, leaving the body takes exactly one
\* off however the body ended (normally, by an exception or cancelled), and
\* a rejected entry leaves the counter as it was.
C36_CounterIsNumberInside ==
    /\ [](/\ current_wait_count >= 0
          /\ current_wait_count =
                Cardinality({c \in Coroutines : wait_state[c] = "waiting"})
          /\ ((\A c \in Coroutines : wait_state[c] # "waiting") =>
                 current_wait_count = 0))
    /\ [][/\ \A c \in Coroutines :
               /\ (wait_state[c] = "waiting" /\ wait_state'[c] # "waiting") =>
                     /\ wait_state'[c] \in WaitEndings
                     /\ current_wait_count' = current_wait_count - 1
               /\ (wait_state[c] # "waiting" /\ wait_state'[c] = "waiting") =>
                     current_wait_count' = current_wait_count + 1
          /\ (RUNTIME_WAIT_COMPLETED'["rejected"]
                 # RUNTIME_WAIT_COMPLETED["rejected"]) =>
                current_wait_count' = current_wait_count]_vars

\* C36 witness: every coroutine has been inside and has left, one by
\* cancellation, one by an exception and one normally, an entry was rejected
\* in between, and the counter is back at 0.
C36_Witness ==
    /\ current_wait_count = 0
    /\ RUNTIME_WAIT_TOTAL >= NumCoroutines
    /\ RUNTIME_WAIT_COMPLETED["rejected"] >= 1
    /\ \E c \in Coroutines : wait_state[c] = "cancelled"
    /\ \E c \in Coroutines : wait_state[c] = "error"
    /\ \E c \in Coroutines : wait_state[c] = "success"

\* C37: once every waiter has left, the waits that were admitted are the
\* waits counted as completed with success, timeout or error.
C37_TotalIsSumOfCompletions ==
    (\A c \in Coroutines : wait_state[c] # "waiting") =>
        RUNTIME_WAIT_TOTAL = RUNTIME_WAIT_COMPLETED["success"]
                             + RUNTIME_WAIT_COMPLETED["timeout"]
                             + RUNTIME_WAIT_COMPLETED["error"]

\* Both calls of load_tokens have ended.
RaceOver == \A c \in Callers : rc_pc[c] \in {"returned", "raised"}

\* C38: two processes call load_tokens at the same time on one expired pair
\* and the provider accepts a refresh token once.  No caller ever returns
\* the expired pair; both calls end; and when they have ended, exactly one
\* refresh has succeeded and its pair is the stored one, one caller at least
\* has returned it, and the other has returned that same pair or has raised
\* TokenRefreshRaceError after max_retries iterations.
C38_RaceResolved ==
    /\ [](\A c \in Callers :
            /\ rc_attempt[c] <= max_retries
            /\ rc_result[c].kind = "tokens" =>
                  rc_result[c].tokens # Tokens(TokenRow(0)))
    /\ [](RaceOver =>
            /\ upstream_token = 1
            /\ token_row = Some(TokenRow(1))
            /\ \E c \in Callers : rc_result[c].kind = "tokens"
            /\ \A c \in Callers :
                 \/ /\ rc_result[c].kind = "tokens"
                    /\ rc_result[c].tokens = Tokens(TokenRow(1))
                 \/ /\ rc_result[c].kind = "TokenRefreshRaceError"
                    /\ rc_attempt[c] = max_retries)
    /\ <>RaceOver

\* C38 witness: the provider refused the used refresh token of one caller,
\* which found the other caller's pair on its read after the backoff and
\* returned it.
C38_Witness ==
    /\ RaceOver
    /\ \E c, d \in Callers :
         /\ c # d
         /\ rc_new[c] = Some(TokenRow(1))
         /\ rc_new[d] = None
         /\ rc_result[d].kind = "tokens"
         /\ rc_result[d].tokens = Tokens(TokenRow(1))
         /\ rc_seen[d] = Some(TokenRow(0))

\* The summaries of the runs that went through their loop over the
\* organizations.
NonCatastrophic == {"completed", "completed_with_errors"}

\* C39: in the summary of a run of either processor that was not aborted,
\* orgs_processed plus the number of entries of errors is the number of
\* organizations that have the processor's policy enabled, and errors is
\* null exactly when the status is 'completed'.
C39_SummaryAccountsForEveryOrg ==
    /\ result.status \in NonCatastrophic =>
          /\ result.orgs_processed + Len(result.errors)
                = Cardinality(OrgsWithRetention)
          /\ result.errors = None <=> result.status = "completed"
    /\ ce_result.status \in NonCatastrophic =>
          /\ ce_result.orgs_processed + Len(ce_result.errors)
                = Cardinality(OrgsWithExpiration)
          /\ ce_result.errors = None <=> ce_result.status = "completed"

\* C39 witness: the retention processor has returned the summary of a run
\* in which it processed both organizations, and the sweeper that of a run
\* in which one of its two organizations failed.
C39_Witness ==
    /\ result.status = "completed"
    /\ result.orgs_processed = 2
    /\ ce_result.status = "completed_with_errors"
    /\ ce_result.orgs_processed = 1
    /\ Len(ce_result.errors) = 1
=============================================================================
